---- MODULE Spec2Model ----
(***************************************************************************)
(* A model of the euroleague_basketball pipeline:                          *)
(*   - HometownLookupService.lookup_player_hometown                         *)
(*     (src/services/hometown_lookup.py) with the hometown_cache table of   *)
(*     MySQLConnector (src/database/mysql_connector.py);                    *)
(*   - the item loops of EuroLeaguePipeline (src/main.py): sync_teams,      *)
(*     sync_rosters, sync_schedule, scrape_game_stats, process_hometowns,   *)
(*     with DataValidator (src/services/data_validator.py).                 *)
(* Strings that the code inspects character by character (names, ids) are   *)
(* sequences of one-character strings.  Python's None is the token None;    *)
(* a value is falsy when it is None or the empty string.                    *)
(***************************************************************************)
EXTENDS Integers, Sequences, FiniteSets, TLC

VARIABLES
    hometown_cache,   \* rows of the hometown_cache table, in insertion order
    lkDb,             \* HometownLookupService.db is set (a connector was given)
    lkPc,             \* position of lookup_player_hometown: idle/loop/returned/raised
    lkName,           \* player_name of the current call
    lkKey,            \* normalized_name of the current call
    lkForce,          \* force_refresh of the current call
    lkIdx,            \* index in self.scrapers of the next source of the for loop
    result,           \* the merged record `result` of the current call
    lkRet,            \* the value returned by the last call (None while running)
    lkRead,           \* what the cache read of the current call did: "skipped", "ok", "none", "raise"
    lkHeld,           \* the table held a successful row for lkKey when the call started
    consulted,        \* history: source and outcome of every scraper.lookup_player call of this call
    cacheCalls,       \* history: every db.cache_hometown_lookup call of this call, with |consulted| at that time
    lkFromCache,      \* the last call returned the cached record (line 62)
    lkWriteRaised,    \* history: a db.cache_hometown_lookup call of this call raised
    plPc,             \* the pipeline loop that is running: idle/sync_teams/sync_rosters/sync_schedule/scrape_game_stats
    plInput,          \* the list the running loop iterates over
    plIdx,            \* index in plInput of the next item of the loop
    plLog,            \* history: what the loop did with each item it has processed
    dbWrites,         \* history: every database write call of the running loop, in call order
    stats_scraped,    \* game ids whose schedule row has stats_scraped = TRUE
    phPc,             \* position of process_hometowns: idle/loop/lookup/done
    phPlayers,        \* rows returned by get_players_needing_hometown_lookup
    phIdx,            \* index in phPlayers of the next player of the for loop
    success_count,    \* process_hometowns: success_count
    failed_count,     \* process_hometowns: failed_count
    updateCalls,      \* history: player_id of every db.update_player_hometown call of this run
    reviewCalls,      \* history: player_id of every db.mark_player_for_review call of this run
    fsPc,             \* position of run_full_sync: idle, the step that is running, done, raised
    fsCalls,          \* history: the steps run_full_sync has called, in call order
    scPc,             \* position of a scrape_* call of EuroLeagueScraper: idle/api/web/returned/raised
    scFn,             \* the scrape_* method called
    scArg,            \* its argument: team_id of scrape_roster, game_id of scrape_game_stats
    scApi,            \* what the _scrape_*_api method returned
    scRet,            \* the value the scrape_* method returned
    scAttempts,       \* history: the _scrape_*_api and _scrape_*_web methods invoked by this call, in order
    now,              \* the clock, in whole seconds: the value of time.time()
    rate_limit,       \* BaseScraper.rate_limit of the scraper instance
    last_request_time, \* BaseScraper.last_request_time of the scraper instance
    issued,           \* history: for every request of the instance, the time _get or _post was called and the time the request was issued
    htFn,             \* the function of the last HTTP call that ended
    htHttp,           \* what the HTTP exchange of that call did: ok, or failed (connection error, timeout, error status)
    htRet,            \* how that call ended: the kind of value it returned, or raise
    callFn,           \* the function of the call whose result is held: none when there is no such call
    callArg,          \* the argument of that call
    callRet,          \* the value that call returned
    summary,          \* process_all_american_players: the dict `summary`, or the error record it returned
    playersTable,     \* rows of the players table, one per player_id
    lastWrite         \* history: the last call that wrote to the players table, and the rows of its player_id before it

lookupVars == <<hometown_cache, lkDb, lkPc, lkName, lkKey, lkForce, lkIdx, result,
                lkRet, lkRead, lkHeld, consulted, cacheCalls, lkFromCache, lkWriteRaised>>

pipelineVars == <<plPc, plInput, plIdx, plLog, dbWrites, stats_scraped>>

hometownVars == <<phPc, phPlayers, phIdx, success_count, failed_count, updateCalls, reviewCalls>>

fullSyncVars == <<fsPc, fsCalls>>

scrapeVars == <<scPc, scFn, scArg, scApi, scRet, scAttempts>>

httpVars == <<now, rate_limit, last_request_time, issued, htFn, htHttp, htRet>>

callVars == <<callFn, callArg, callRet>>

\* the state outside the lookup service and the loops of the pipeline
batchVars == <<summary>>

tableVars == <<playersTable, lastWrite>>

otherVars == <<fullSyncVars, scrapeVars, httpVars, callVars, batchVars, tableVars>>

vars == <<lookupVars, pipelineVars, hometownVars, otherVars>>

(***************************************************************************)
(* Bounds                                                                   *)
(***************************************************************************)
\* a lookup on its own starts only while the cache table holds fewer rows than
\* this; a run of process_hometowns starts only while the rows of the table
\* and the players of the run are together no more than this
MaxCacheRows == 2

\* the longest wait a scraper is configured with, in seconds
MaxRateLimit == 2

\* the clock stops at this time
MaxClock == 7

\* the most requests a scraper instance makes
MaxRequests == 3

\* time.time() when the scraper is constructed: seconds since 1970, more than
\* any rate limit
StartTime == MaxRateLimit + 1

(***************************************************************************)
(* Python values                                                            *)
(***************************************************************************)
None == "None"

\* truthiness of a string-or-None value
Truthy(v) == v # None /\ v # ""

\* dict.get(key) with default None
Get(d, key) == IF key \in DOMAIN d THEN d[key] ELSE None

(***************************************************************************)
(* BaseScraper.normalize_name                                               *)
(***************************************************************************)
Whitespace == {" ", "\t", "\n"}

LowerChar(c) ==
    CASE c = "J" -> "j"
      [] c = "S" -> "s"
      [] c = "G" -> "g"
      [] c = "É" -> "é"
      [] c = "U" -> "u"
      [] c = "A" -> "a"
      [] c = "R" -> "r"
      [] c = "P" -> "p"
      [] c = "B" -> "b"
      [] c = "H" -> "h"
      [] c = "I" -> "i"
      [] c = "M" -> "m"
      [] c = "N" -> "n"
      [] c = "O" -> "o"
      [] c = "T" -> "t"
      [] c = "V" -> "v"
      [] c = "C" -> "c"
      [] c = "E" -> "e"
      [] c = "L" -> "l"
      [] OTHER -> c

Unidecode(c) ==
    CASE c = "é" -> "e"
      [] c = "í" -> "i"
      [] OTHER -> c

AsciiLowerAlnum == {"a", "c", "e", "g", "i", "j", "o", "r", "s", "0", "1", "2", "3"}

RECURSIVE LStrip(_)
LStrip(s) == IF s # <<>> /\ Head(s) \in Whitespace THEN LStrip(Tail(s)) ELSE s

RECURSIVE RStrip(_)
RStrip(s) ==
    IF s # <<>> /\ s[Len(s)] \in Whitespace THEN RStrip(SubSeq(s, 1, Len(s) - 1)) ELSE s

Strip(s) == RStrip(LStrip(s))

\* name.lower()
Lower(s) == [i \in 1..Len(s) |-> LowerChar(s[i])]

\* unidecode(...)
UnidecodeAll(s) == [i \in 1..Len(s) |-> Unidecode(s[i])]

\* re.sub(r'[^a-z0-9\s]', '', s)
RemoveSpecial(s) == SelectSeq(s, LAMBDA c : c \in AsciiLowerAlnum \/ c \in Whitespace)

\* re.sub(r'\s+', '_', s)
RECURSIVE CollapseWhitespace(_)
CollapseWhitespace(s) ==
    IF s = <<>> THEN <<>>
    ELSE IF Head(s) \in Whitespace
         THEN <<"_">> \o CollapseWhitespace(LStrip(s))
         ELSE <<Head(s)>> \o CollapseWhitespace(Tail(s))

normalize_name(name) ==
    IF name = <<>> THEN <<>>
    ELSE LET normalized == UnidecodeAll(Strip(Lower(name)))
         IN  CollapseWhitespace(RemoveSpecial(normalized))

\* sample player names: two spellings of one player, and another player
PlayerNames ==
    { <<"J", "o", "s", "é">>,
      <<" ", "j", "o", "s", "e", ".", " ">>,
      <<"J", "o", " ", " ", "G", "r", "a", "c", "í", "a">> }

(***************************************************************************)
(* The sources and what a source's lookup_player can return                 *)
(***************************************************************************)
\* mutant: the secondary source listed first
scrapers_swapped == <<"wikipedia", "basketball_reference", "grokepedia">>

\* HometownLookupService.__init__: self.scrapers, in priority order
scrapers == <<"basketball_reference", "wikipedia", "grokepedia">>

\* _merge_results: fields_to_merge
fields_to_merge ==
    <<"hometown_city", "hometown_state", "high_school", "high_school_city",
      "high_school_state", "college", "photo_url", "profile_url">>

MergeFields == {fields_to_merge[i] : i \in 1..Len(fields_to_merge)}

\* sample pages: which fields the scraper could parse (profile_url is the
\* page's own URL)
PageProfiles ==
    { {"hometown_city", "hometown_state"},
      {"high_school", "high_school_city", "high_school_state", "college"},
      {"college", "photo_url"} }

\* the value a source gives to every field it fills
SourceValue(source_name) ==
    CASE source_name = "basketball_reference" -> "bbref"
      [] source_name = "wikipedia" -> "wiki"
      [] OTHER -> "grok"

\* the dict built by scrape_player_info / WikipediaScraper.lookup_player;
\* lookup_successful is set when hometown_state or high_school was found
ScraperResult(source_name, filled) ==
    LET val(f) == IF f \in filled THEN SourceValue(source_name) ELSE None
        ok == "hometown_state" \in filled \/ "high_school" \in filled
    IN  IF source_name = "wikipedia"
        THEN [hometown_city |-> val("hometown_city"), hometown_state |-> val("hometown_state"),
              high_school |-> val("high_school"), high_school_city |-> val("high_school_city"),
              high_school_state |-> val("high_school_state"), college |-> val("college"),
              photo_url |-> val("photo_url"), wikipedia_url |-> SourceValue(source_name),
              source |-> "wikipedia", lookup_successful |-> ok]
        ELSE [hometown_city |-> val("hometown_city"), hometown_state |-> val("hometown_state"),
              high_school |-> val("high_school"), high_school_city |-> val("high_school_city"),
              high_school_state |-> val("high_school_state"), college |-> val("college"),
              \* BasketballRefScraper: photo_elem.get('src', '') may be the empty string
              photo_url |-> IF source_name = "basketball_reference" /\ "hometown_city" \in filled
                            THEN "" ELSE val("photo_url"),
              profile_url |-> SourceValue(source_name),
              source |-> source_name, lookup_successful |-> ok]

NoValue == <<>>

\* what scraper.lookup_player does: returns None, raises, or returns a dict
ScraperOutcomes(source_name) ==
    { [kind |-> "none", value |-> NoValue], [kind |-> "raise", value |-> NoValue] }
    \cup { [kind |-> "dict", value |-> ScraperResult(source_name, p)] : p \in PageProfiles }

\* what one call of the connector does: it works, mysql.connector raises Error
\* (execute / fetch_one catch it and return None), or something else is raised
DbOutcomes == {"ok", "error", "raise"}

(***************************************************************************)
(* MySQLConnector: the hometown_cache table                                 *)
(***************************************************************************)
\* cache_hometown_lookup: the row the INSERT writes
CacheRow(normalized_name, source, res) ==
    [player_name_search |-> normalized_name,
     lookup_source |-> source,
     lookup_successful |-> IF "lookup_successful" \in DOMAIN res
                           THEN res.lookup_successful ELSE FALSE,
     hometown_city |-> Get(res, "hometown_city"),
     hometown_state |-> Get(res, "hometown_state"),
     high_school |-> Get(res, "high_school"),
     high_school_city |-> Get(res, "high_school_city"),
     high_school_state |-> Get(res, "high_school_state"),
     college |-> Get(res, "college"),
     source_url |-> Get(res, "source_url"),
     profile_url |-> Get(res, "profile_url"),
     photo_url |-> Get(res, "photo_url")]

\* cache_hometown_lookup: the table after the call
cache_hometown_lookup(rows, normalized_name, source, res, outcome) ==
    IF outcome = "ok" THEN Append(rows, CacheRow(normalized_name, source, res)) ELSE rows

\* get_hometown_cache: WHERE player_name_search = %s AND lookup_successful = TRUE
\*                     ORDER BY lookup_date DESC LIMIT 1
CacheMatches(rows, normalized_name) ==
    { i \in 1..Len(rows) : rows[i].player_name_search = normalized_name
                           /\ rows[i].lookup_successful }

\* mutant: the oldest successful row is read
get_hometown_cache_oldest(rows, normalized_name, outcome) ==
    LET hits == CacheMatches(rows, normalized_name)
    IN  IF outcome = "raise" THEN [kind |-> "raise", value |-> NoValue]
        ELSE IF outcome = "error" \/ hits = {} THEN [kind |-> "none", value |-> NoValue]
        ELSE [kind |-> "dict", value |-> rows[CHOOSE i \in hits : \A j \in hits : i <= j]]

get_hometown_cache(rows, normalized_name, outcome) ==
    LET hits == CacheMatches(rows, normalized_name)
    IN  IF outcome = "raise" THEN [kind |-> "raise", value |-> NoValue]
        ELSE IF outcome = "error" \/ hits = {} THEN [kind |-> "none", value |-> NoValue]
        ELSE [kind |-> "dict", value |-> rows[CHOOSE i \in hits : \A j \in hits : j <= i]]

(***************************************************************************)
(* HometownLookupService                                                    *)
(***************************************************************************)
\* lookup_player_hometown: the initial `result`
EmptyResult ==
    [hometown_city |-> None, hometown_state |-> None, high_school |-> None,
     high_school_city |-> None, high_school_state |-> None, college |-> None,
     photo_url |-> None, profile_url |-> None, source |-> None,
     lookup_successful |-> FALSE, needs_manual_review |-> FALSE]

\* mutant: only the hometown state counts as required data
has_required_data_state_only(res) == Truthy(Get(res, "hometown_state"))

has_required_data(res) == Truthy(Get(res, "hometown_state")) \/ Truthy(Get(res, "high_school"))

\* mutant: a later source overwrites what an earlier one filled
merge_results_overwrite(target, source, source_name) ==
    [k \in DOMAIN target |->
        IF k \in MergeFields
        THEN IF Truthy(Get(source, k)) THEN source[k] ELSE target[k]
        ELSE IF k = "source"
        THEN IF ~Truthy(target[k]) /\ source.lookup_successful THEN source_name ELSE target[k]
        ELSE target[k]]

merge_results(target, source, source_name) ==
    [k \in DOMAIN target |->
        IF k \in MergeFields
        THEN IF ~Truthy(target[k]) /\ Truthy(Get(source, k)) THEN source[k] ELSE target[k]
        ELSE IF k = "source"
        THEN IF ~Truthy(target[k]) /\ source.lookup_successful THEN source_name ELSE target[k]
        ELSE target[k]]

\* mutant: no except clause around the cache read
get_cached_result_unguarded(rows, normalized_name, outcome) ==
    LET cached == get_hometown_cache(rows, normalized_name, outcome)
    IN  IF cached.kind = "dict"
        THEN [kind |-> "dict",
              value |-> [hometown_city |-> cached.value.hometown_city,
                         hometown_state |-> cached.value.hometown_state,
                         high_school |-> cached.value.high_school,
                         high_school_city |-> cached.value.high_school_city,
                         high_school_state |-> cached.value.high_school_state,
                         college |-> cached.value.college,
                         photo_url |-> cached.value.photo_url,
                         profile_url |-> cached.value.profile_url,
                         source |-> cached.value.lookup_source,
                         lookup_successful |-> cached.value.lookup_successful]]
        ELSE cached

\* _get_cached_result: the dict built from the row, None when there is no row
\* or when the read raised (the except clause logs and falls through)
get_cached_result(rows, normalized_name, outcome) ==
    LET cached == get_hometown_cache(rows, normalized_name, outcome)
    IN  IF cached.kind = "dict"
        THEN [kind |-> "dict",
              value |-> [hometown_city |-> cached.value.hometown_city,
                         hometown_state |-> cached.value.hometown_state,
                         high_school |-> cached.value.high_school,
                         high_school_city |-> cached.value.high_school_city,
                         high_school_state |-> cached.value.high_school_state,
                         college |-> cached.value.college,
                         photo_url |-> cached.value.photo_url,
                         profile_url |-> cached.value.profile_url,
                         source |-> cached.value.lookup_source,
                         lookup_successful |-> cached.value.lookup_successful]]
        ELSE [kind |-> "none", value |-> NoValue]

\* _cache_result: the table after the call; an exception of the connector is
\* caught and logged
cache_result(rows, normalized_name, source, res, outcome) ==
    IF outcome = "raise" THEN rows
    ELSE cache_hometown_lookup(rows, normalized_name, source, res, outcome)

\* mutant: force_refresh is ignored
use_cache_ignoring_force(force_refresh, db) == db

\* line 58: `if not force_refresh and self.db`
use_cache(force_refresh, db) == ~force_refresh /\ db

\* mutant: the merged record is cached instead of the source's own result
cached_value_merged(source_result, merged) == merged

\* line 90: the record handed to _cache_result is the source's own result
cached_value(source_result, merged) == source_result

\* lookup_player_hometown, lines 54-77: normalize, read the cache, return the
\* cached record or start the traversal
LookupBegin(name, force_refresh, read) ==
    /\ lkPc = "idle"
    /\ read \in (IF use_cache(force_refresh, lkDb) THEN DbOutcomes ELSE {"skipped"})
    /\ LET normalized_name == normalize_name(name)
           cached == IF read = "skipped" THEN [kind |-> "none", value |-> NoValue]
                     ELSE get_cached_result(hometown_cache, normalized_name, read)
           hit == cached.kind = "dict" /\ cached.value.lookup_successful
       IN  /\ lkName' = name
           /\ lkKey' = normalized_name
           /\ lkForce' = force_refresh
           /\ lkRead' = read
           /\ lkHeld' = (CacheMatches(hometown_cache, normalized_name) # {})
           /\ consulted' = <<>>
           /\ cacheCalls' = <<>>
           /\ lkIdx' = 1
           /\ lkPc' = IF cached.kind = "raise" THEN "raised"
                      ELSE IF hit THEN "returned" ELSE "loop"
           /\ lkFromCache' = (cached.kind # "raise" /\ hit)
           /\ lkWriteRaised' = FALSE
           /\ lkRet' = IF cached.kind # "raise" /\ hit THEN cached.value ELSE EmptyResult
           /\ result' = EmptyResult
           /\ UNCHANGED <<hometown_cache, lkDb>>

\* a call of lookup_player_hometown on its own
LookupStart(name, force_refresh, read) ==
    /\ Len(hometown_cache) < MaxCacheRows
    /\ LookupBegin(name, force_refresh, read)
    /\ UNCHANGED <<pipelineVars, hometownVars, otherVars>>

\* mutant: the review flag is never set
FinishResult_no_flag(res) == res

\* lines 102-107: flag for manual review; the record that is returned
FinishResult(res) ==
    IF ~res.lookup_successful THEN [res EXCEPT !.needs_manual_review = TRUE] ELSE res

\* one iteration of `for source_name, scraper in self.scrapers`, lines 79-100;
\* the iteration that ends the loop (break, or the last source) goes on to
\* lines 102-107 and returns
LookupSource(outcome, write) ==
    /\ lkPc = "loop"
    /\ lkIdx <= Len(scrapers)
    /\ LET source_name == scrapers[lkIdx]
           isDict == outcome.kind = "dict"
           merged == IF isDict THEN merge_results(result, outcome.value, source_name)
                     ELSE result
           stop == isDict /\ has_required_data(merged)
           after == IF stop THEN [merged EXCEPT !.lookup_successful = TRUE] ELSE merged
           last == stop \/ lkIdx = Len(scrapers)
       IN  /\ outcome \in ScraperOutcomes(source_name)
           /\ write \in (IF isDict /\ lkDb THEN DbOutcomes ELSE {"skipped"})
           /\ consulted' = Append(consulted, [source |-> source_name, outcome |-> outcome])
           /\ hometown_cache' =
                 IF isDict /\ lkDb
                 THEN cache_result(hometown_cache, lkKey, source_name,
                                   cached_value(outcome.value, merged), write)
                 ELSE hometown_cache
           /\ cacheCalls' =
                 IF isDict /\ lkDb
                 THEN Append(cacheCalls, [key |-> lkKey, source |-> source_name,
                                          result |-> cached_value(outcome.value, merged),
                                          after |-> Len(consulted) + 1])
                 ELSE cacheCalls
           /\ lkWriteRaised' = (lkWriteRaised \/ write = "raise")
           /\ lkIdx' = IF stop THEN lkIdx ELSE lkIdx + 1
           /\ result' = IF last THEN FinishResult(after) ELSE after
           /\ lkRet' = IF last THEN FinishResult(after) ELSE lkRet
           /\ lkPc' = IF last THEN "returned" ELSE "loop"
    /\ UNCHANGED <<lkDb, lkName, lkKey, lkForce, lkRead, lkHeld, lkFromCache>>
    /\ UNCHANGED <<pipelineVars, hometownVars, otherVars>>

\* the call's locals are gone once the caller has taken the returned record
LookupFrameGone ==
    /\ lkPc' = "idle"
    /\ lkName' = <<>>
    /\ lkKey' = <<>>
    /\ lkForce' = FALSE
    /\ lkIdx' = 1
    /\ result' = EmptyResult
    /\ lkRet' = EmptyResult
    /\ lkRead' = "skipped"
    /\ lkHeld' = FALSE
    /\ consulted' = <<>>
    /\ cacheCalls' = <<>>
    /\ lkFromCache' = FALSE
    /\ lkWriteRaised' = FALSE
    /\ UNCHANGED <<hometown_cache, lkDb>>

\* a caller of lookup_player_hometown takes the returned record
LookupReturn ==
    /\ lkPc = "returned"
    /\ phPc = "idle"
    /\ LookupFrameGone
    /\ UNCHANGED <<pipelineVars, hometownVars, otherVars>>

\* no pipeline loop is running (EuroLeaguePipeline.__init__ has run)
PipelineIdle ==
    /\ plPc = "idle"
    /\ plInput = <<>>
    /\ plIdx = 1
    /\ plLog = <<>>
    /\ dbWrites = <<>>

\* process_hometowns is not running
HometownsIdle ==
    /\ phPc = "idle"
    /\ phPlayers = <<>>
    /\ phIdx = 1
    /\ success_count = 0
    /\ failed_count = 0
    /\ updateCalls = <<>>
    /\ reviewCalls = <<>>

\* process_all_american_players, lines 198-203: the dict `summary` before the loop, with total still 0
EmptySummary == [total |-> 0, success |-> 0, failed |-> 0, needs_review |-> 0]

\* no call has written to the players table
NoWrite == [fn |-> "none"]

\* run_full_sync has not been called, no scrape_* call is running, a
\* scraper with the default rate limit has made no request, and no function
\* of the scripts has been called
OthersIdle ==
    /\ fsPc = "idle"
    /\ fsCalls = <<>>
    /\ scPc = "idle"
    /\ scFn = "none"
    /\ scArg = <<>>
    /\ scApi = <<>>
    /\ scRet = <<>>
    /\ scAttempts = <<>>
    /\ now = StartTime
    /\ rate_limit = 2
    /\ last_request_time = 0
    /\ issued = <<>>
    /\ htFn = "none"
    /\ htHttp = "ok"
    /\ htRet = [kind |-> "None", len |-> 0]
    /\ callFn = "none"
    /\ callArg = <<>>
    /\ callRet = <<>>
    /\ summary = EmptySummary
    /\ playersTable = {}
    /\ lastWrite = NoWrite

LookupInit ==
    /\ hometown_cache = <<>>
    /\ lkDb \in BOOLEAN
    /\ lkPc = "idle"
    /\ lkName = <<>>
    /\ lkKey = <<>>
    /\ lkForce = FALSE
    /\ lkIdx = 1
    /\ result = EmptyResult
    /\ lkRet = EmptyResult
    /\ lkRead = "skipped"
    /\ lkHeld = FALSE
    /\ consulted = <<>>
    /\ cacheCalls = <<>>
    /\ lkFromCache = FALSE
    /\ lkWriteRaised = FALSE

LookupNext ==
    \/ \E name \in PlayerNames, force_refresh \in BOOLEAN :
          \E read \in (IF use_cache(force_refresh, lkDb) THEN DbOutcomes ELSE {"skipped"}) :
             LookupStart(name, force_refresh, read)
    \/ /\ lkPc = "loop"
       /\ lkIdx <= Len(scrapers)
       /\ \E outcome \in ScraperOutcomes(scrapers[lkIdx]) :
             \E write \in (IF outcome.kind = "dict" /\ lkDb THEN DbOutcomes ELSE {"skipped"}) :
                LookupSource(outcome, write)
    \/ LookupReturn

Init == LookupInit /\ PipelineIdle /\ stats_scraped = {} /\ HometownsIdle /\ OthersIdle

Next == LookupNext

Spec == Init /\ [][Next]_vars

(***************************************************************************)
(* Claims about lookup_player_hometown, checked under Spec                  *)
(***************************************************************************)
Traversing == lkPc \in {"loop", "returned"} /\ ~lkFromCache

Returned == lkPc = "returned" /\ ~lkFromCache

\* C1: within one call the sources are consulted in the order
\* basketball_reference, wikipedia, grokepedia: the i-th scraper call of a
\* call is to the i-th source, so a source is consulted only after every
\* higher-priority one and none is consulted twice.
C1_PriorityOrder ==
    /\ Len(consulted) <= 3
    /\ \A i \in 1..Len(consulted) :
          consulted[i].source = <<"basketball_reference", "wikipedia", "grokepedia">>[i]

C1_Witness == lkPc = "returned" /\ Len(consulted) = 3

\* C2: the traversal stops as soon as the merged record has a non-empty
\* hometown_state or high_school: while another source can still be
\* consulted the merged record has neither, and a returned record that has
\* one of them has lookup_successful = True.
C2_StopsOnRequiredData ==
    /\ lkPc = "loop" =>
          ~Truthy(result.hometown_state) /\ ~Truthy(result.high_school)
    /\ Returned /\ (Truthy(lkRet.hometown_state) \/ Truthy(lkRet.high_school)) =>
          lkRet.lookup_successful = TRUE

C2_Witness ==
    /\ Returned
    /\ Len(consulted) = 2
    /\ Truthy(lkRet.high_school)
    /\ lkRet.lookup_successful

\* the sources of this call, in order, that returned a dict with field f non-empty
GaveField(f) ==
    { i \in 1..Len(consulted) :
         /\ consulted[i].outcome.kind = "dict"
         /\ f \in DOMAIN consulted[i].outcome.value
         /\ Truthy(consulted[i].outcome.value[f]) }

\* C3: every merged field holds the value of the first (highest-priority)
\* source that returned it non-empty, whatever later sources returned, and
\* is still empty when no source returned it.
C3_EarlierSourceWins ==
    Traversing =>
        \A f \in {"hometown_city", "hometown_state", "high_school", "high_school_city",
                  "high_school_state", "college", "photo_url", "profile_url"} :
            IF GaveField(f) = {}
            THEN ~Truthy(result[f])
            ELSE LET first == CHOOSE i \in GaveField(f) : \A j \in GaveField(f) : i <= j
                 IN  result[f] = consulted[first].outcome.value[f]

\* two sources returned a college; the merged record kept the first one's
C3_Witness ==
    /\ Returned
    /\ Cardinality(GaveField("college")) >= 2
    /\ result.college = "bbref"

\* C4: after all three sources without hometown_state and high_school the
\* returned record has lookup_successful = False and needs_manual_review =
\* True; every record returned by the traversal has needs_manual_review
\* exactly when lookup_successful is False.
C4_ManualReview ==
    Returned =>
        /\ (Len(consulted) = 3 /\ ~Truthy(lkRet.hometown_state) /\ ~Truthy(lkRet.high_school)
              => lkRet.lookup_successful = FALSE /\ lkRet.needs_manual_review = TRUE)
        /\ lkRet.needs_manual_review = (lkRet.lookup_successful = FALSE)

C4_Witness ==
    /\ Returned
    /\ Len(consulted) = 3
    /\ lkRet.needs_manual_review
    /\ Truthy(lkRet.college)

\* C5: no exception of a scraper or of the cache leaves lookup_player_hometown:
\* the call is never in a raised state, a source that raised is followed by
\* the next source (or by the return after the last one), and a running call
\* always has a next source to try.
C5_NeverRaises ==
    /\ lkPc \in {"idle", "loop", "returned"}
    /\ lkPc = "loop" => lkIdx = Len(consulted) + 1 /\ lkIdx <= 3
    /\ \A i \in 1..Len(consulted) :
          consulted[i].outcome.kind = "raise" =>
              \/ Len(consulted) > i
              \/ lkPc = "loop" /\ lkIdx = i + 1
              \/ lkPc = "returned" /\ i = 3

\* the cache read raised, a source raised, a cache write raised, and the call returned a record
C5_Witness ==
    /\ lkPc = "returned"
    /\ lkRead = "raise"
    /\ \E i \in 1..Len(consulted) : consulted[i].outcome.kind = "raise"
    /\ lkWriteRaised
    /\ lkRet.lookup_successful

\* C6: with a database, every source that returned a dict caused exactly one
\* cache_hometown_lookup call, made before the next source was consulted,
\* with the source's own result, the source's name and the normalized
\* player name; sources that returned None or raised caused none.
C6_CacheWrites ==
    Traversing =>
        /\ \A k \in 1..Len(cacheCalls) :
              LET i == cacheCalls[k].after
              IN  /\ i \in 1..Len(consulted)
                  /\ consulted[i].outcome.kind = "dict"
                  /\ cacheCalls[k].result = consulted[i].outcome.value
                  /\ cacheCalls[k].source = consulted[i].source
                  /\ cacheCalls[k].key = normalize_name(lkName)
                  /\ \A m \in 1..Len(cacheCalls) : cacheCalls[m].after = i => m = k
        /\ lkDb => \A i \in 1..Len(consulted) :
                      consulted[i].outcome.kind = "dict" =>
                          \E k \in 1..Len(cacheCalls) : cacheCalls[k].after = i
        /\ ~lkDb => cacheCalls = <<>>
        /\ lkName \in { <<"J", "o", "s", "é">>, <<" ", "j", "o", "s", "e", ".", " ">> }
              => lkKey = <<"j", "o", "s", "e">>
        /\ lkName = <<"J", "o", " ", " ", "G", "r", "a", "c", "í", "a">>
              => lkKey = <<"j", "o", "_", "g", "r", "a", "c", "i", "a">>

\* a call with a database in which one source returned nothing, one a dict
\* that did not end the traversal, and one the dict that ended it
C6_Witness ==
    /\ Returned
    /\ lkDb
    /\ Len(consulted) = 3
    /\ Len(cacheCalls) = 2
    /\ \E i \in 1..3 : consulted[i].outcome.kind = "none"
    /\ cacheCalls[1].result.college = "bbref"
    /\ lkName = <<" ", "j", "o", "s", "e", ".", " ">>

\* C7 as stated: the cached record is returned, and no source consulted,
\* exactly when a database is configured, force_refresh is False and the
\* table holds a successful row for the normalized name.
C7_CacheUsedExactlyWhenHeld ==
    lkPc = "returned" =>
        /\ lkFromCache = (lkDb /\ ~lkForce /\ lkHeld)
        /\ lkFromCache => consulted = <<>>
        /\ ~lkFromCache => consulted # <<>>

\* C7 amended: ... and the cache read succeeded (a read that fails counts as
\* a miss); the record returned is then the one of the latest successful row.
C7_CacheUsedWhenReadSucceeds ==
    lkPc = "returned" =>
        /\ lkFromCache = (lkDb /\ ~lkForce /\ lkHeld /\ lkRead = "ok")
        /\ lkFromCache => /\ consulted = <<>>
                          /\ lkRet.lookup_successful
                          /\ \E i \in 1..Len(hometown_cache) :
                                /\ hometown_cache[i].player_name_search = normalize_name(lkName)
                                /\ hometown_cache[i].lookup_successful
                                /\ hometown_cache[i].lookup_source = lkRet.source
                                /\ hometown_cache[i].hometown_state = lkRet.hometown_state
                                /\ hometown_cache[i].high_school = lkRet.high_school
        /\ ~lkFromCache => consulted # <<>>

C7_Witness ==
    /\ lkPc = "returned"
    /\ lkFromCache
    /\ lkName = <<"J", "o", "s", "é">>
    /\ lkRet.source = "wikipedia"

(***************************************************************************)
(* Values of the dicts that the pipeline loops handle.  A value carries its *)
(* Python type; strings are sequences of characters.                        *)
(***************************************************************************)
PyNone == [type |-> "NoneType", value |-> 0]

PyStr(s) == [type |-> "str", value |-> s]

PyInt(n) == [type |-> "int", value |-> n]

PyBool(b) == [type |-> "bool", value |-> b]

\* the dict {}
EmptyDict == [type |-> "dict"]

\* a datetime.date object
PyDate(y, m, d) == [type |-> "date", value |-> <<y, m, d>>]

\* bool(v)
PyTruthy(v) ==
    CASE v.type = "NoneType" -> FALSE
      [] v.type = "str"      -> v.value # <<>>
      [] v.type = "int"      -> v.value # 0
      [] v.type = "bool"     -> v.value
      [] v.type = "dict"     -> DOMAIN v # {"type"}
      [] OTHER               -> TRUE

\* dict.get(key) on a dict of such values
PyGet(d, key) == IF key \in DOMAIN d THEN d[key] ELSE PyNone

Digits == {"0", "1", "2", "3", "4", "5", "6", "7", "8", "9"}

DigitValue(c) ==
    CASE c = "0" -> 0 [] c = "1" -> 1 [] c = "2" -> 2 [] c = "3" -> 3 [] c = "4" -> 4
      [] c = "5" -> 5 [] c = "6" -> 6 [] c = "7" -> 7 [] c = "8" -> 8 [] c = "9" -> 9

\* str.isdigit
isdigit(s) == s # <<>> /\ \A i \in 1..Len(s) : s[i] \in Digits

\* int(s) for a string of digits
RECURSIVE int(_)
int(s) == IF s = <<>> THEN 0 ELSE int(SubSeq(s, 1, Len(s) - 1)) * 10 + DigitValue(s[Len(s)])

\* s[:n]
Prefix(s, n) == SubSeq(s, 1, IF Len(s) < n THEN Len(s) ELSE n)

(***************************************************************************)
(* DataValidator helpers                                                    *)
(***************************************************************************)
\* the characters of [A-Za-z0-9_] that occur in the ids of this model
IdChars == AsciiLowerAlnum \cup {"E", "U", "R", "O", "L", "A", "G", "_"}

\* _is_valid_id: re.match(r'^[A-Za-z0-9_]+$', id_value); `$` also matches
\* before a final newline
is_valid_id(id_value) ==
    LET body == IF id_value # <<>> /\ id_value[Len(id_value)] = "\n"
                THEN SubSeq(id_value, 1, Len(id_value) - 1) ELSE id_value
    IN  body # <<>> /\ \A i \in 1..Len(body) : body[i] \in IdChars

IsLeapYear(y) == (y % 4 = 0 /\ y % 100 # 0) \/ y % 400 = 0

DaysInMonth(y, m) ==
    IF m = 2 THEN (IF IsLeapYear(y) THEN 29 ELSE 28)
    ELSE IF m \in {4, 6, 9, 11} THEN 30 ELSE 31

\* the ways to read s as three fields separated by sep
FieldSplits(s, sep) ==
    {<<SubSeq(s, 1, i - 1), SubSeq(s, i + 1, j - 1), SubSeq(s, j + 1, Len(s))>> :
        <<i, j>> \in {p \in (1..Len(s)) \X (1..Len(s)) :
                         p[1] < p[2] /\ s[p[1]] = sep /\ s[p[2]] = sep}}

\* %Y of strptime: four digits, and a year datetime accepts
IsYearField(f) == Len(f) = 4 /\ isdigit(f) /\ int(f) >= 1

\* %m of strptime: 1[0-2]|0[1-9]|[1-9]
IsMonthField(f) == Len(f) \in 1..2 /\ isdigit(f) /\ int(f) \in 1..12

\* %d of strptime: 3[01]|[12]\d|0[1-9]|[1-9]| [1-9]
DayFieldValue(f) ==
    IF Len(f) \in 1..2 /\ isdigit(f) /\ int(f) \in 1..31 THEN int(f)
    ELSE IF Len(f) = 2 /\ f[1] = " " /\ f[2] \in Digits \ {"0"} THEN DigitValue(f[2])
    ELSE 0

\* datetime.strptime(s, fmt) succeeds, fmt being year-month-day or
\* day-month-year with the separator sep
strptime_ok(s, sep, yearFirst) ==
    \E t \in FieldSplits(s, sep) :
       LET y == IF yearFirst THEN t[1] ELSE t[3]
           d == IF yearFirst THEN t[3] ELSE t[1]
       IN  /\ IsYearField(y)
           /\ IsMonthField(t[2])
           /\ DayFieldValue(d) \in 1..DaysInMonth(int(y), int(t[2]))

\* _is_valid_date
is_valid_date(date_value) ==
    IF date_value.type = "date" THEN TRUE
    ELSE IF date_value.type = "str"
         THEN \E sep \in {"-", "/"}, yearFirst \in BOOLEAN :
                 strptime_ok(Prefix(date_value.value, 10), sep, yearFirst)
         ELSE FALSE


\* validate_team: is_valid
validate_team(team) ==
    /\ PyTruthy(PyGet(team, "team_id"))
    /\ PyTruthy(PyGet(team, "team_name"))
    /\ PyTruthy(PyGet(team, "league_id"))
    /\ is_valid_id(team.team_id.value)

\* validate_player: is_valid.  Lines 105-109 are not reached:
\* player.get('hometown_state') is None for every dict of _parse_api_player.
validate_player(player) ==
    /\ PyTruthy(PyGet(player, "player_id"))
    /\ PyTruthy(PyGet(player, "full_name"))
    /\ is_valid_id(player.player_id.value)
    /\ PyTruthy(PyGet(player, "birth_date")) => is_valid_date(player.birth_date)
    /\ PyTruthy(PyGet(player, "height_cm")) =>
          (150 <= player.height_cm.value /\ player.height_cm.value <= 250)
    /\ PyTruthy(PyGet(player, "weight_kg")) =>
          (50 <= player.weight_kg.value /\ player.weight_kg.value <= 200)
    /\ PyTruthy(PyGet(player, "jersey_number")) =>
          LET jersey == player.jersey_number.value
          IN  \/ isdigit(jersey) /\ 0 <= int(jersey) /\ int(jersey) <= 99
              \/ jersey = <<"0", "0">>

\* validate_game: is_valid
validate_game(game) ==
    /\ PyTruthy(PyGet(game, "game_id"))
    /\ PyTruthy(PyGet(game, "game_date"))
    /\ is_valid_date(PyGet(game, "game_date"))
    /\ PyGet(game, "status") = PyStr(<<"c", "o", "m", "p", "l", "e", "t", "e", "d">>) =>
          /\ PyGet(game, "home_score").type # "NoneType"
          /\ PyGet(game, "away_score").type # "NoneType"
          /\ 0 <= game.home_score.value /\ game.home_score.value <= 200
          /\ 0 <= game.away_score.value /\ game.away_score.value <= 200

\* a made/attempted pair of validate_game_stat
MadeWithinAttempted(stat, made, attempted) ==
    (PyGet(stat, made).type # "NoneType" /\ PyGet(stat, attempted).type # "NoneType")
       => PyGet(stat, made).value <= PyGet(stat, attempted).value

\* a range check of validate_game_stat
WithinRange(stat, key, top) ==
    PyGet(stat, key).type # "NoneType"
       => (0 <= PyGet(stat, key).value /\ PyGet(stat, key).value <= top)

\* validate_game_stat, lines 179-209: the checks on the statistics themselves
stat_values_ok(stat) ==
    \/ PyTruthy(PyGet(stat, "did_not_play"))
    \/ /\ WithinRange(stat, "points", 80)
       /\ WithinRange(stat, "rebounds_total", 35)
       /\ WithinRange(stat, "assists", 25)
       /\ MadeWithinAttempted(stat, "fg_made", "fg_attempted")
       /\ MadeWithinAttempted(stat, "three_pt_made", "three_pt_attempted")
       /\ MadeWithinAttempted(stat, "ft_made", "ft_attempted")

\* validate_game_stat: is_valid
validate_game_stat(stat) ==
    /\ PyTruthy(PyGet(stat, "player_id"))
    /\ PyTruthy(PyGet(stat, "game_id"))
    /\ stat_values_ok(stat)


(***************************************************************************)
(* EuroLeagueScraper: what the parsers make of the API's records            *)
(***************************************************************************)
LEAGUE_ID == <<"E", "U", "R", "O", "L", "E", "A", "G", "U", "E">>

\* f"{league_id}_{normalized}"
normalize_team_id(league_id, team_name) == league_id \o <<"_">> \o normalize_name(team_name)

normalize_player_id(league_id, player_name) == league_id \o <<"_">> \o normalize_name(player_name)

\* str(n) for n >= 0
RECURSIVE IntToStr(_)
IntToStr(n) ==
    LET digit == CHOOSE c \in Digits : DigitValue(c) = n % 10
    IN  IF n < 10 THEN <<digit>> ELSE IntToStr(n \div 10) \o <<digit>>

\* str(v)
PyToStr(v) ==
    CASE v.type = "NoneType" -> <<"N", "o", "n", "e">>
      [] v.type = "int"      -> IntToStr(v.value)
      [] OTHER               -> v.value

\* a in b, for strings
IsSubstring(a, b) == \E i \in 0..(Len(b) - Len(a)) : SubSeq(b, i + 1, i + Len(a)) = a

\* self.american_indicators
american_indicators ==
    << <<"U", "S", "A">>,
       <<"U", "n", "i", "t", "e", "d", " ", "S", "t", "a", "t", "e", "s">>,
       <<"U", "S">>,
       <<"U", ".", "S", ".", "A", ".">>,
       <<"U", ".", "S", ".">>,
       <<"A", "m", "e", "r", "i", "c", "a", "n">>,
       <<"U", "n", "i", "t", "e", "d", " ", "S", "t", "a", "t", "e", "s", " ", "o", "f", " ",
         "A", "m", "e", "r", "i", "c", "a">> >>

\* _identify_american
identify_american(nationality) ==
    /\ nationality # <<>>
    /\ \E i \in 1..Len(american_indicators) :
          IsSubstring(Lower(american_indicators[i]), Lower(nationality))

\* _parse_api_team: the fields of the dict that the pipeline and the validator read
parse_api_team(club) ==
    IF club.name = <<>> THEN PyNone
    ELSE [type |-> "dict",
          team_id |-> PyStr(normalize_team_id(LEAGUE_ID, club.name)),
          league_id |-> PyStr(LEAGUE_ID),
          team_name |-> PyStr(club.name)]

\* the `for ... : x = parse(raw); if x: append(x)` loops of the _scrape_*_api methods
RECURSIVE KeepParsed(_)
KeepParsed(parsed) ==
    IF parsed = <<>> THEN <<>>
    ELSE IF Head(parsed).type = "NoneType" THEN KeepParsed(Tail(parsed))
         ELSE <<Head(parsed)>> \o KeepParsed(Tail(parsed))

\* _scrape_teams_api
scrape_teams(clubs) == KeepParsed([i \in 1..Len(clubs) |-> parse_api_team(clubs[i])])

\* _parse_api_player; height_cm and weight_kg are the results of
\* parse_height_cm and parse_weight_kg
parse_api_player(person) ==
    LET joined == Strip(person.name \o <<" ">> \o person.surname)
        full_name == IF joined # <<>> THEN joined ELSE person.fullName
        is_american == identify_american(person.country)
    IN  IF full_name = <<>> THEN PyNone
        ELSE [type |-> "dict",
              player_id |-> PyStr(normalize_player_id(LEAGUE_ID, full_name)),
              league_id |-> PyStr(LEAGUE_ID),
              full_name |-> PyStr(full_name),
              jersey_number |-> PyStr(PyToStr(person.dorsal)),
              height_cm |-> person.height_cm,
              weight_kg |-> person.weight_kg,
              birth_date |-> IF PyTruthy(person.birthDate) THEN person.birthDate ELSE PyNone,
              is_american |-> PyBool(is_american),
              needs_hometown_lookup |-> PyBool(is_american)]

\* _scrape_roster_api of scrape_roster
scrape_roster(people) == KeepParsed([i \in 1..Len(people) |-> parse_api_player(people[i])])


\* the date that datetime.strptime(s, '%Y-%m-%d') gives, None when it raises
strptime_date(s) ==
    LET fits == {t \in FieldSplits(s, "-") :
                    /\ IsYearField(t[1])
                    /\ IsMonthField(t[2])
                    /\ DayFieldValue(t[3]) \in 1..DaysInMonth(int(t[1]), int(t[2]))}
    IN  IF fits = {} THEN PyNone
        ELSE LET t == CHOOSE t \in fits : TRUE
             IN  PyDate(int(t[1]), int(t[2]), DayFieldValue(t[3]))

\* the date of datetime.fromisoformat(s) for s of the form YYYY-MM-DDT<time>,
\* None when it raises; the time part is taken to be well formed
fromisoformat_date(s) ==
    LET y == SubSeq(s, 1, 4)
        m == SubSeq(s, 6, 7)
        d == SubSeq(s, 9, 10)
    IN  IF /\ Len(s) >= 11
           /\ s[5] = "-" /\ s[8] = "-" /\ s[11] = "T"
           /\ isdigit(y) /\ isdigit(m) /\ isdigit(d)
           /\ int(y) >= 1 /\ int(m) \in 1..12
           /\ int(d) \in 1..DaysInMonth(int(y), int(m))
        THEN PyDate(int(y), int(m), int(d))
        ELSE PyNone

\* _parse_api_game, lines 553-569: game_date
parse_game_date(game_date_str) ==
    IF game_date_str = <<>> THEN PyNone
    ELSE IF \E i \in 1..Len(game_date_str) : game_date_str[i] = "T"
         THEN fromisoformat_date(game_date_str)
         ELSE strptime_date(Prefix(game_date_str, 10))

\* _parse_api_game, lines 571-582: status
parse_game_status(status_str) ==
    LET lowered == Lower(status_str)
        has(word) == IsSubstring(word, lowered)
    IN  IF \/ has(<<"p", "l", "a", "y", "e", "d">>)
           \/ has(<<"f", "i", "n", "i", "s", "h", "e", "d">>)
           \/ has(<<"f", "i", "n", "a", "l">>)
        THEN <<"c", "o", "m", "p", "l", "e", "t", "e", "d">>
        ELSE IF has(<<"l", "i", "v", "e">>) \/ has(<<"p", "r", "o", "g", "r", "e", "s", "s">>)
        THEN <<"i", "n", "_", "p", "r", "o", "g", "r", "e", "s", "s">>
        ELSE IF has(<<"p", "o", "s", "t", "p", "o", "n", "e", "d">>)
        THEN <<"p", "o", "s", "t", "p", "o", "n", "e", "d">>
        ELSE IF has(<<"c", "a", "n", "c", "e", "l", "l", "e", "d">>)
        THEN <<"c", "a", "n", "c", "e", "l", "l", "e", "d">>
        ELSE <<"s", "c", "h", "e", "d", "u", "l", "e", "d">>

\* _parse_api_game: the fields of the dict that the pipeline and the validator read
parse_api_game(game_data, season) ==
    IF game_data.gameCode = <<>> THEN PyNone
    ELSE [type |-> "dict",
          game_id |-> PyStr(LEAGUE_ID \o <<"_">> \o season \o <<"_">> \o game_data.gameCode),
          game_date |-> parse_game_date(game_data.date),
          status |-> PyStr(parse_game_status(game_data.status)),
          home_score |-> game_data.homeScore,
          away_score |-> game_data.awayScore]

\* _scrape_schedule_api
scrape_schedule(game_list, season) ==
    KeepParsed([i \in 1..Len(game_list) |-> parse_api_game(game_list[i], season)])

\* _parse_player_stat: the fields of the dict that the validator reads; the
\* dict has no 'game_id' key
parse_player_stat(data) ==
    IF data.playerName = <<>> THEN PyNone
    ELSE [type |-> "dict",
          player_id |-> PyStr(normalize_player_id(LEAGUE_ID, data.playerName)),
          did_not_play |-> PyBool(data.dnp \/ data.minutes = <<"D", "N", "P">>),
          minutes_played |-> PyStr(data.minutes),
          points |-> data.points,
          rebounds_total |-> data.totalRebounds,
          assists |-> data.assists,
          fg_made |-> data.fieldGoalsMade,
          fg_attempted |-> data.fieldGoalsAttempted,
          three_pt_made |-> PyInt(0),
          three_pt_attempted |-> PyInt(0),
          ft_made |-> PyInt(0),
          ft_attempted |-> PyInt(0)]

\* str.split(sep)
RECURSIVE Split(_, _)
Split(s, sep) ==
    IF \A i \in 1..Len(s) : s[i] # sep THEN <<s>>
    ELSE LET i == CHOOSE k \in 1..Len(s) : s[k] = sep /\ \A j \in 1..(k - 1) : s[j] # sep
         IN  <<SubSeq(s, 1, i - 1)>> \o Split(SubSeq(s, i + 1, Len(s)), sep)

\* scrape_game_stats with _scrape_game_stats_api and _scrape_game_stats_web:
\* the dict returned for game_id when the API answers with the box score
\* `boxscore` (a record of kind "data"), when only the web page answers
\* ("web"), and when neither does ("nothing")
scrape_game_stats(game_id, boxscore) ==
    LET parts == Split(game_id, "_")
        stats_id == PyStr(LEAGUE_ID \o <<"_">> \o parts[2] \o <<"_">> \o parts[3])
    IN  IF Len(parts) < 3 \/ boxscore.kind = "nothing" THEN EmptyDict
        ELSE IF boxscore.kind = "data"
        THEN [type |-> "dict",
              game_id |-> stats_id,
              final_score |-> [type |-> "dict", home |-> boxscore.homeScore,
                                                away |-> boxscore.awayScore],
              player_stats |-> KeepParsed([i \in 1..Len(boxscore.players) |->
                                              parse_player_stat(boxscore.players[i])])]
        ELSE [type |-> "dict",
              game_id |-> stats_id,
              final_score |-> EmptyDict,
              player_stats |-> <<>>]


(***************************************************************************)
(* Sample API records                                                       *)
(***************************************************************************)
\* the longest list a loop of the pipeline is given
MaxItems == 2

\* the sequences over S of length at most n
SeqsUpTo(S, n) == UNION {[1..k -> S] : k \in 0..n}

\* clubs of the clubs endpoint: two clubs and a record without a name
Clubs ==
    { [name |-> <<"G", "o", "r", "i", "c", "a">>],
      [name |-> <<"S", "a", "r", "a", "g", "o", "s", "a", " ", "J", ".">>],
      [name |-> <<>>] }

\* people of the people endpoint: a well-formed player, a player whose dorsal
\* is null, one with a placeholder birth date whose height was read as 98 cm,
\* and a record without a name
People ==
    { [name |-> <<"J", "o", "s", "é">>, surname |-> <<"G", "r", "a", "c", "í", "a">>,
       fullName |-> <<>>, country |-> <<"U", "S", "A">>, dorsal |-> PyInt(7),
       height_cm |-> PyInt(198), weight_kg |-> PyInt(95),
       birthDate |-> PyStr(<<"1", "9", "9", "6", "-", "0", "2", "-", "2", "9",
                             "T", "0", "0", ":", "0", "0">>)],
      [name |-> <<"S", "e", "r", "g", "i", "o">>, surname |-> <<>>,
       fullName |-> <<>>, country |-> <<"R", "u", "s", "s", "i", "a">>, dorsal |-> PyNone,
       height_cm |-> PyNone, weight_kg |-> PyNone, birthDate |-> PyNone],
      [name |-> <<"J", "o">>, surname |-> <<"S", "o", "s", "a">>,
       fullName |-> <<>>, country |-> <<>>, dorsal |-> PyStr(<<"0", "0">>),
       height_cm |-> PyInt(98), weight_kg |-> PyInt(100),
       birthDate |-> PyStr(<<"0", "0", "0", "0", "-", "0", "0", "-", "0", "0">>)],
      [name |-> <<>>, surname |-> <<>>,
       fullName |-> <<>>, country |-> <<>>, dorsal |-> PyStr(<<>>),
       height_cm |-> PyNone, weight_kg |-> PyNone, birthDate |-> PyNone] }

\* self.current_season
current_season == <<"E", "2", "0", "2", "3">>

\* games of the games endpoint: two played games, a game without a date, a
\* game dated 30 February, a played game without scores, a record without code
GameList ==
    { [gameCode |-> <<"1">>, status |-> <<"P", "l", "a", "y", "e", "d">>,
       date |-> <<"2", "0", "2", "3", "-", "1", "0", "-", "0", "5">>,
       homeScore |-> PyInt(80), awayScore |-> PyInt(75)],
      [gameCode |-> <<"2">>, status |-> <<"f", "i", "n", "a", "l">>,
       date |-> <<"2", "0", "2", "3", "-", "1", "0", "-", "0", "6",
                  "T", "1", "9", ":", "0", "0">>,
       homeScore |-> PyInt(91), awayScore |-> PyInt(88)],
      [gameCode |-> <<"3">>, status |-> <<"s", "c", "h", "e", "d", "u", "l", "e", "d">>,
       date |-> <<>>, homeScore |-> PyNone, awayScore |-> PyNone],
      [gameCode |-> <<"4">>, status |-> <<"s", "c", "h", "e", "d", "u", "l", "e", "d">>,
       date |-> <<"2", "0", "2", "3", "-", "0", "2", "-", "3", "0">>,
       homeScore |-> PyNone, awayScore |-> PyNone],
      [gameCode |-> <<"5">>, status |-> <<"P", "l", "a", "y", "e", "d">>,
       date |-> <<"2", "0", "2", "3", "-", "1", "0", "-", "0", "7">>,
       homeScore |-> PyNone, awayScore |-> PyNone],
      [gameCode |-> <<>>, status |-> <<>>, date |-> <<>>,
       homeScore |-> PyNone, awayScore |-> PyNone] }

\* player lines of a box score: a line with in-range values, a line with 95
\* points, a player who did not play, and a line without a name
StatLines ==
    { [playerName |-> <<"J", "o", "s", "é">>, dnp |-> FALSE,
       minutes |-> <<"2", "5", ":", "3", "0">>,
       points |-> PyInt(10), totalRebounds |-> PyInt(5), assists |-> PyInt(3),
       fieldGoalsMade |-> PyInt(4), fieldGoalsAttempted |-> PyInt(9)],
      [playerName |-> <<"J", "o", " ", "S", "o", "s", "a">>, dnp |-> FALSE,
       minutes |-> <<"3", "8", ":", "0", "0">>,
       points |-> PyInt(95), totalRebounds |-> PyInt(5), assists |-> PyInt(3),
       fieldGoalsMade |-> PyInt(30), fieldGoalsAttempted |-> PyInt(40)],
      [playerName |-> <<"S", "e", "r", "g", "i", "o">>, dnp |-> FALSE,
       minutes |-> <<"D", "N", "P">>,
       points |-> PyInt(0), totalRebounds |-> PyInt(0), assists |-> PyInt(0),
       fieldGoalsMade |-> PyInt(0), fieldGoalsAttempted |-> PyInt(0)],
      [playerName |-> <<>>, dnp |-> FALSE, minutes |-> <<>>,
       points |-> PyInt(0), totalRebounds |-> PyInt(0), assists |-> PyInt(0),
       fieldGoalsMade |-> PyInt(0), fieldGoalsAttempted |-> PyInt(0)] }

\* what the box score endpoint and the game page can give for a game
BoxScores ==
    {[kind |-> "data", homeScore |-> PyInt(80), awayScore |-> PyInt(75), players |-> ps] :
        ps \in SeqsUpTo(StatLines, MaxItems)}
    \cup {[kind |-> "web"], [kind |-> "nothing"]}


(***************************************************************************)
(* EuroLeaguePipeline: sync_teams, sync_rosters, sync_schedule and          *)
(* scrape_game_stats                                                        *)
(***************************************************************************)
\* mutant: an item that failed validation is not skipped
skip_invalid_never(is_valid) == FALSE

\* `if not is_valid: ... continue`
skip_invalid(is_valid) == ~is_valid

\* what an iteration does with its item: skip it, or call the database write,
\* which returns True ("saved"), returns False ("failed") or raises
ItemStep(is_valid, outcome) ==
    IF skip_invalid(is_valid) THEN "skipped"
    ELSE IF outcome = "ok" THEN "saved"
    ELSE IF outcome = "error" THEN "failed"
    ELSE "raised"

\* the database write call of an iteration, if it made one
WriteCall(op, item, disposition) ==
    IF disposition = "skipped" THEN <<>> ELSE <<[op |-> op, item |-> item]>>

\* a loop starts: its local state
LoopBegins(name, input) ==
    /\ plPc = "idle"
    /\ plPc' = name
    /\ plInput' = input
    /\ plIdx' = 1
    /\ plLog' = <<>>
    /\ dbWrites' = <<>>
    /\ UNCHANGED <<stats_scraped, lookupVars, hometownVars, otherVars>>

\* what scrape_teams, scrape_roster and scrape_schedule can return
ScrapedTeams == {scrape_teams(clubs) : clubs \in SeqsUpTo(Clubs, MaxItems)}

ScrapedRosters == {scrape_roster(people) : people \in SeqsUpTo(People, MaxItems)}

ScrapedSchedules ==
    {scrape_schedule(game_list, current_season) : game_list \in SeqsUpTo(GameList, MaxItems)}

\* sync_teams, line 385: teams = self.scraper.scrape_teams()
SyncTeamsStart(teams) == LoopBegins("sync_teams", teams)

\* sync_teams, lines 394-415: one iteration of `for team in teams`
SyncTeamsItem(outcome) ==
    /\ plPc = "sync_teams"
    /\ plIdx <= Len(plInput)
    /\ LET team == plInput[plIdx]
           disposition == ItemStep(validate_team(team), outcome)
       IN  /\ plLog' = Append(plLog, disposition)
           /\ dbWrites' = dbWrites \o WriteCall("upsert_team", team, disposition)
    /\ plIdx' = plIdx + 1
    /\ UNCHANGED <<plPc, plInput, stats_scraped, lookupVars, hometownVars, otherVars>>

\* sync_rosters, line 446: teams = self.db.get_all_teams()
SyncRostersStart(teams) == LoopBegins("sync_rosters", teams)

\* sync_rosters, lines 476-486: the player as it is validated and saved
RosterPlayer(player, team_id) ==
    [player EXCEPT !.league_id = PyStr(LEAGUE_ID),
                   !.needs_hometown_lookup =
                       IF PyTruthy(player.is_american) THEN PyBool(TRUE) ELSE @]
       @@ [team_id |-> team_id]

\* the positions of the items of an inner loop for which the write call is
\* made, valid[i] being the validator's is_valid for the i-th item
WritePositions(valid) == {i \in 1..Len(valid) : ~skip_invalid(valid[i])}

\* an inner loop (`for player in players`, lines 474-498, and
\* `for player_stat in ...`, lines 772-779) from its i-th item on; an
\* exception of the write call leaves it.  outcomes[i] is what the write call
\* for the i-th item does.
RECURSIVE InnerLoop(_, _, _)
InnerLoop(valid, outcomes, i) ==
    IF i > Len(valid) THEN <<>>
    ELSE LET disposition == IF skip_invalid(valid[i]) THEN "skipped"
                            ELSE ItemStep(valid[i], outcomes[i])
         IN  IF disposition = "raised" THEN <<disposition>>
             ELSE <<disposition>> \o InnerLoop(valid, outcomes, i + 1)

\* sync_rosters, lines 474-486: the players of a team as they are validated
RosterPlayers(scraped, team_id) ==
    [i \in 1..Len(scraped) |-> RosterPlayer(scraped[i], team_id)]

\* is_valid of validate_player for each player of a list
PlayersValid(players) == [i \in 1..Len(players) |-> validate_player(players[i])]

\* is_valid of validate_game_stat for each stat line of a list
StatsValid(player_stats) ==
    [i \in 1..Len(player_stats) |-> validate_game_stat(player_stats[i])]

RECURSIVE WriteCalls(_, _, _)
WriteCalls(op, items, dispositions) ==
    IF dispositions = <<>> THEN <<>>
    ELSE WriteCall(op, Head(items), Head(dispositions))
            \o WriteCalls(op, Tail(items), Tail(dispositions))

\* sync_rosters, lines 459-501: one iteration of `for team in teams`; scraped
\* is what scrape_roster returns for the team
SyncRostersTeam(scraped, outcomes) ==
    /\ plPc = "sync_rosters"
    /\ plIdx <= Len(plInput)
    /\ LET team == plInput[plIdx]
           players == RosterPlayers(scraped, team.team_id)
           dispositions == InnerLoop(PlayersValid(players), outcomes, 1)
       IN  /\ plLog' = Append(plLog, [players |-> players, dispositions |-> dispositions])
           /\ dbWrites' = dbWrites \o WriteCalls("upsert_player", players, dispositions)
    /\ plIdx' = plIdx + 1
    /\ UNCHANGED <<plPc, plInput, stats_scraped, lookupVars, hometownVars, otherVars>>

\* sync_schedule, line 534: schedule = self.scraper.scrape_schedule()
SyncScheduleStart(schedule) == LoopBegins("sync_schedule", schedule)

\* sync_schedule, lines 541-556: one iteration of `for game in schedule`
SyncScheduleItem(outcome) ==
    /\ plPc = "sync_schedule"
    /\ plIdx <= Len(plInput)
    /\ LET game == plInput[plIdx]
           disposition == ItemStep(validate_game(game), outcome)
       IN  /\ plLog' = Append(plLog, disposition)
           /\ dbWrites' = dbWrites \o WriteCall("upsert_game", game, disposition)
    /\ plIdx' = plIdx + 1
    /\ UNCHANGED <<plPc, plInput, stats_scraped, lookupVars, hometownVars, otherVars>>


\* stats.get('player_stats', []) when the scraper returned stats
PlayerStatsOf(scraped) ==
    IF scraped.type = "dict" /\ "player_stats" \in DOMAIN scraped
    THEN scraped.player_stats ELSE <<>>

\* scrape_game_stats, line 741: games = self.db.get_games_needing_stats(days_back)
ScrapeGameStatsStart(games) ==
    /\ games # <<>>
    /\ \A i \in 1..Len(games) : games[i] \notin stats_scraped
    /\ LoopBegins("scrape_game_stats", games)

\* scrape_game_stats, lines 753-793: one iteration of `for game in games`.
\* scraped is what self.scraper.scrape_game_stats does for the game; scores,
\* inserts and mark are what update_game_scores, the insert_game_stat calls
\* and mark_game_stats_scraped do ("skipped" when no stats were found)
ScrapeGameStatsGame(scraped, scores, inserts, mark) ==
    /\ plPc = "scrape_game_stats"
    /\ plIdx <= Len(plInput)
    /\ LET game_id == plInput[plIdx]
           stats == IF scraped.type = "raise" THEN EmptyDict ELSE scraped
           player_stats == PlayerStatsOf(stats)
           found == PyTruthy(stats) /\ player_stats # <<>>
           scored == found /\ PyTruthy(stats.final_score)
           dispositions == IF found /\ ~(scored /\ scores = "raise")
                           THEN InnerLoop(StatsValid(player_stats), inserts, 1) ELSE <<>>
           marking == /\ found
                      /\ ~(scored /\ scores = "raise")
                      /\ \A i \in 1..Len(dispositions) : dispositions[i] # "raised"
           scoreCall == IF scored
                        THEN <<[op |-> "update_game_scores", item |-> PyStr(game_id)]>>
                        ELSE <<>>
           statItems == [i \in 1..Len(player_stats) |->
                            [game_id |-> game_id, stat |-> player_stats[i]]]
           markCall == IF marking
                       THEN <<[op |-> "mark_game_stats_scraped", item |-> PyStr(game_id)]>>
                       ELSE <<>>
       IN  /\ plLog' = Append(plLog,
                 [game_id |-> game_id, player_stats |-> player_stats,
                  dispositions |-> dispositions,
                  outcome |-> IF scraped.type = "raise" THEN "raised"
                              ELSE IF ~found THEN "no_stats"
                              ELSE IF ~marking \/ mark = "raise" THEN "raised"
                              ELSE "success"])
           /\ dbWrites' = dbWrites \o scoreCall
                             \o WriteCalls("insert_game_stat", statItems, dispositions)
                             \o markCall
           /\ stats_scraped' = IF marking /\ mark = "ok"
                               THEN stats_scraped \cup {game_id} ELSE stats_scraped
    /\ plIdx' = plIdx + 1
    /\ UNCHANGED <<plPc, plInput, lookupVars, hometownVars, otherVars>>

\* the locals of a loop method are gone once it has returned
PipelineFrameGone ==
    /\ plPc' = "idle"
    /\ plInput' = <<>>
    /\ plIdx' = 1
    /\ plLog' = <<>>
    /\ dbWrites' = <<>>

\* the loop is over and the method returns
PipelineReturn ==
    /\ plPc # "idle"
    /\ plIdx > Len(plInput)
    /\ PipelineFrameGone
    /\ UNCHANGED <<stats_scraped, lookupVars, hometownVars, otherVars>>

\* the lists of at most n elements of the list s that keep the order of s
SubLists(s, n) ==
    {[i \in 1..Len(idx) |-> s[idx[i]]] :
        idx \in {p \in SeqsUpTo(1..Len(s), n) :
                    \A i, j \in 1..Len(p) : i < j => p[i] < p[j]}}

\* get_all_teams: rows of the teams table, which sync_teams has saved, in the
\* order of `ORDER BY team_name`
TeamRows ==
    LET row(name) == LET t == parse_api_team([name |-> name])
                     IN  [team_id |-> t.team_id, team_name |-> t.team_name]
    IN  << row(<<"G", "o", "r", "i", "c", "a">>),
           row(<<"S", "a", "r", "a", "g", "o", "s", "a", " ", "J", ".">>) >>

\* a date is later than another
DateAfter(a, b) ==
    \/ a[1] > b[1]
    \/ a[1] = b[1] /\ a[2] > b[2]
    \/ a[1] = b[1] /\ a[2] = b[2] /\ a[3] > b[3]

\* get_games_needing_stats: game ids of the completed games of the schedule
\* table, which sync_schedule has saved, in the order of
\* `ORDER BY game_date DESC`
CompletedGameIds ==
    LET saved == {g \in {parse_api_game(d, current_season) : d \in GameList} :
                     /\ g.type # "NoneType"
                     /\ validate_game(g)
                     /\ g.status = PyStr(<<"c", "o", "m", "p", "l", "e", "t", "e", "d">>)}
        sorted == CHOOSE rows \in [1..Cardinality(saved) -> saved] :
                     \A i, j \in 1..Cardinality(saved) :
                        i < j => DateAfter(rows[i].game_date.value, rows[j].game_date.value)
    IN  [i \in 1..Len(sorted) |-> sorted[i].game_id.value]

\* what self.scraper.scrape_game_stats can do for each of these games: return
\* a dict, or raise
ScrapedGameStats ==
    [game_id \in {CompletedGameIds[i] : i \in 1..Len(CompletedGameIds)} |->
        {scrape_game_stats(game_id, boxscore) : boxscore \in BoxScores}
           \cup {[type |-> "raise"]}]

PipelineInit == LookupInit /\ lkDb /\ PipelineIdle /\ stats_scraped = {} /\ HometownsIdle /\ OthersIdle

PipelineNext ==
    \/ \E teams \in ScrapedTeams : SyncTeamsStart(teams)
    \/ \E outcome \in DbOutcomes : SyncTeamsItem(outcome)
    \/ \E teams \in SubLists(TeamRows, MaxItems) : SyncRostersStart(teams)
    \/ /\ plPc = "sync_rosters"
       /\ plIdx <= Len(plInput)
       /\ \E scraped \in ScrapedRosters :
             LET players == RosterPlayers(scraped, plInput[plIdx].team_id)
             IN  \E outcomes \in [WritePositions(PlayersValid(players)) -> DbOutcomes] :
                    SyncRostersTeam(scraped, outcomes)
    \/ \E schedule \in ScrapedSchedules : SyncScheduleStart(schedule)
    \/ \E outcome \in DbOutcomes : SyncScheduleItem(outcome)
    \/ \E games \in SubLists(CompletedGameIds, MaxItems) : ScrapeGameStatsStart(games)
    \/ /\ plPc = "scrape_game_stats"
       /\ plIdx <= Len(plInput)
       /\ \E scraped \in ScrapedGameStats[plInput[plIdx]] :
             LET player_stats == PlayerStatsOf(scraped)
                 called == IF player_stats # <<>> THEN DbOutcomes ELSE {"skipped"}
             IN  \E scores \in called, mark \in called :
                    \E inserts \in [WritePositions(StatsValid(player_stats)) -> DbOutcomes] :
                       ScrapeGameStatsGame(scraped, scores, inserts, mark)
    \/ PipelineReturn

SpecPipeline == PipelineInit /\ [][PipelineNext]_vars


(***************************************************************************)
(* Claims about the pipeline loops, checked under SpecPipeline              *)
(***************************************************************************)
\* the item of a write call passes the validator of its table
WrittenItemIsValid(w) ==
    /\ w.op = "upsert_team" => validate_team(w.item)
    /\ w.op = "upsert_player" => validate_player(w.item)
    /\ w.op = "upsert_game" => validate_game(w.item)
    /\ w.op = "insert_game_stat" => validate_game_stat(w.item.stat)

\* in an inner loop a skipped item is followed by the handling of the next one
SkipGoesOn(items, dispositions) ==
    \A j \in 1..Len(dispositions) :
       (dispositions[j] = "skipped" /\ j < Len(items)) => Len(dispositions) > j

\* C8: in sync_teams, sync_rosters, sync_schedule and scrape_game_stats an
\* item for which the validator returns is_valid = False is never passed to
\* upsert_team, upsert_player, upsert_game or insert_game_stat: every item of
\* a write call is valid, an invalid item is recorded as skipped, and after a
\* skip the loop goes on to the next item.
C8_InvalidNeverWritten ==
    /\ \A k \in 1..Len(dbWrites) : WrittenItemIsValid(dbWrites[k])
    /\ plPc = "sync_teams" =>
          \A i \in 1..Len(plLog) :
             /\ ~validate_team(plInput[i]) => plLog[i] = "skipped"
             /\ (plLog[i] = "skipped" /\ i < Len(plInput)) => plIdx > i
    /\ plPc = "sync_schedule" =>
          \A i \in 1..Len(plLog) :
             /\ ~validate_game(plInput[i]) => plLog[i] = "skipped"
             /\ (plLog[i] = "skipped" /\ i < Len(plInput)) => plIdx > i
    /\ plPc = "sync_rosters" =>
          \A i \in 1..Len(plLog) :
             /\ \A j \in 1..Len(plLog[i].dispositions) :
                   ~validate_player(plLog[i].players[j]) =>
                       plLog[i].dispositions[j] = "skipped"
             /\ SkipGoesOn(plLog[i].players, plLog[i].dispositions)
    /\ plPc = "scrape_game_stats" =>
          \A i \in 1..Len(plLog) :
             /\ \A j \in 1..Len(plLog[i].dispositions) :
                   ~validate_game_stat(plLog[i].player_stats[j]) =>
                       plLog[i].dispositions[j] = "skipped"
             /\ SkipGoesOn(plLog[i].player_stats, plLog[i].dispositions)

\* C8 witness: sync_rosters skipped an invalid player and saved the next one
C8_Witness ==
    /\ plPc = "sync_rosters"
    /\ \E i \in 1..Len(plLog) :
          /\ plLog[i].dispositions = <<"skipped", "saved">>
          /\ ~validate_player(plLog[i].players[1])
          /\ dbWrites[Len(dbWrites)] = [op |-> "upsert_player", item |-> plLog[i].players[2]]

\* the call insert_game_stat(game_id, stat)
InsertCall(game_id, stat) ==
    [op |-> "insert_game_stat", item |-> [game_id |-> game_id, stat |-> stat]]

\* the call mark_game_stats_scraped(game_id)
MarkCall(game_id) == [op |-> "mark_game_stats_scraped", item |-> PyStr(game_id)]

\* C9: scrape_game_stats saves the player statistics: when a game is marked
\* stats_scraped, every stat line of its box score that _parse_player_stat
\* produced with in-range values has been inserted with insert_game_stat
\* before; and a game for which no stats were found is not marked.
C9_StatsSavedBeforeMarked ==
    plPc = "scrape_game_stats" =>
       \A i \in 1..Len(plLog) :
          LET game == plLog[i]
          IN  /\ \A k \in 1..Len(dbWrites) :
                    dbWrites[k] = MarkCall(game.game_id) =>
                       \A j \in 1..Len(game.player_stats) :
                          stat_values_ok(game.player_stats[j]) =>
                             \E m \in 1..(k - 1) :
                                dbWrites[m] = InsertCall(game.game_id, game.player_stats[j])
              /\ game.outcome = "no_stats" =>
                    /\ \A k \in 1..Len(dbWrites) : dbWrites[k] # MarkCall(game.game_id)
                    /\ game.game_id \notin stats_scraped


(***************************************************************************)
(* EuroLeaguePipeline.process_hometowns                                     *)
(***************************************************************************)
\* the most rows get_players_needing_hometown_lookup returns
MaxPlayers == 2

\* the sample names in the order of `ORDER BY full_name`
NamesInOrder ==
    << <<" ", "j", "o", "s", "e", ".", " ">>,
       <<"J", "o", " ", " ", "G", "r", "a", "c", "í", "a">>,
       <<"J", "o", "s", "é">> >>

\* get_players_needing_hometown_lookup: rows of the players table, whose key
\* is player_id, in the order of their names
PlayersNeedingLookup ==
    LET picks == {idx \in SeqsUpTo(1..Len(NamesInOrder), MaxPlayers) :
                     \A i, j \in 1..Len(idx) : i < j => idx[i] < idx[j]}
        rows(idx) == [i \in 1..Len(idx) |->
                         [player_id |-> normalize_player_id(LEAGUE_ID, NamesInOrder[idx[i]]),
                          full_name |-> NamesInOrder[idx[i]]]]
    IN  {rows(idx) : idx \in {p \in picks :
            \A i, j \in 1..Len(p) :
               i # j => rows(p)[i].player_id # rows(p)[j].player_id}}

\* process_hometowns, lines 598-608: the rows are fetched; an empty list ends
\* the method
ProcessHometownsStart(players) ==
    /\ phPc = "idle"
    /\ lkPc = "idle"
    /\ Len(hometown_cache) + Len(players) <= MaxCacheRows
    /\ players # <<>>
    /\ phPc' = "loop"
    /\ phPlayers' = players
    /\ phIdx' = 1
    /\ success_count' = 0
    /\ failed_count' = 0
    /\ updateCalls' = <<>>
    /\ reviewCalls' = <<>>
    /\ UNCHANGED <<lookupVars, pipelineVars, otherVars>>

\* line 619: self.hometown_service.lookup_player_hometown(player_name) is called
ProcessHometownsLookup(read) ==
    /\ phPc = "loop"
    /\ phIdx <= Len(phPlayers)
    /\ LookupBegin(phPlayers[phIdx].full_name, FALSE, read)
    /\ phPc' = "lookup"
    /\ UNCHANGED <<phPlayers, phIdx, success_count, failed_count, updateCalls, reviewCalls>>
    /\ UNCHANGED <<pipelineVars, otherVars>>

\* lines 619-655: the rest of the iteration once the lookup has returned or
\* raised; outcome is what the call of update_player_hometown or of
\* mark_player_for_review does.  process_player_photos (lines 635-640) handles
\* its own exceptions and touches none of the counters.
ProcessHometownsPlayer(outcome) ==
    /\ phPc = "lookup"
    /\ lkPc \in {"returned", "raised"}
    /\ LET player_id == phPlayers[phIdx].player_id
           found == lkPc = "returned" /\ lkRet.lookup_successful
           missed == lkPc = "returned" /\ ~lkRet.lookup_successful
       IN  /\ updateCalls' = IF found THEN Append(updateCalls, player_id) ELSE updateCalls
           /\ reviewCalls' = IF missed THEN Append(reviewCalls, player_id) ELSE reviewCalls
           /\ success_count' = IF found /\ outcome # "raise"
                               THEN success_count + 1 ELSE success_count
           /\ failed_count' = IF found /\ outcome # "raise"
                              THEN failed_count ELSE failed_count + 1
    /\ phIdx' = phIdx + 1
    /\ phPc' = IF phIdx = Len(phPlayers) THEN "done" ELSE "loop"
    /\ LookupFrameGone
    /\ UNCHANGED <<phPlayers, pipelineVars, otherVars>>

\* the locals of process_hometowns are gone once it has returned
ProcessHometownsFrameGone ==
    /\ phPc' = "idle"
    /\ phPlayers' = <<>>
    /\ phIdx' = 1
    /\ success_count' = 0
    /\ failed_count' = 0
    /\ updateCalls' = <<>>
    /\ reviewCalls' = <<>>

\* line 657: the totals are logged and the method returns
ProcessHometownsReturn ==
    /\ phPc = "done"
    /\ ProcessHometownsFrameGone
    /\ UNCHANGED <<lookupVars, pipelineVars, otherVars>>

\* the pipeline gives its connector to the lookup service (line 261)
HometownsInit == LookupInit /\ lkDb /\ PipelineIdle /\ stats_scraped = {} /\ HometownsIdle /\ OthersIdle

HometownsNext ==
    \/ \E players \in PlayersNeedingLookup : ProcessHometownsStart(players)
    \/ \E read \in DbOutcomes : ProcessHometownsLookup(read)
    \/ /\ phPc = "lookup"
       /\ lkPc = "loop"
       /\ lkIdx <= Len(scrapers)
       /\ \E outcome \in ScraperOutcomes(scrapers[lkIdx]) :
             \E write \in (IF outcome.kind = "dict" /\ lkDb THEN DbOutcomes ELSE {"skipped"}) :
                LookupSource(outcome, write)
    \/ \E outcome \in DbOutcomes : ProcessHometownsPlayer(outcome)
    \/ ProcessHometownsReturn

SpecHometowns == HometownsInit /\ [][HometownsNext]_vars

(***************************************************************************)
(* Claim about process_hometowns, checked under SpecHometowns               *)
(***************************************************************************)
\* C10: at the end of a run of process_hometowns, failed_count equals the
\* number of players for which mark_player_for_review was called,
\* success_count equals the number of players for which
\* update_player_hometown was called, and the two counters add up to the
\* number of selected players.
C10_CountersMatchCalls ==
    phPc = "done" =>
       /\ failed_count = Len(reviewCalls)
       /\ success_count = Len(updateCalls)
       /\ success_count + failed_count = Len(phPlayers)

(***************************************************************************)
(* run_full_sync (src/main.py, lines 307-357), composed with the steps it   *)
(* calls                                                                    *)
(***************************************************************************)
run_full_sync_steps_swapped ==
    <<"sync_teams", "sync_schedule", "sync_rosters", "process_hometowns",
      "flag_american_games">>

\* the calls of the try block, lines 339-351, in the order of the statements
run_full_sync_steps ==
    <<"sync_teams", "sync_rosters", "sync_schedule", "process_hometowns",
      "flag_american_games">>

\* the running step has returned: the next statement of the try block is the
\* call of the next step, or, after the last one, the end of the method
RunFullSyncGoesOn ==
    LET k == CHOOSE i \in 1..Len(run_full_sync_steps) : run_full_sync_steps[i] = fsPc
    IN  IF k < Len(run_full_sync_steps)
        THEN /\ fsPc' = run_full_sync_steps[k + 1]
             /\ fsCalls' = Append(fsCalls, run_full_sync_steps[k + 1])
        ELSE /\ fsPc' = "done"
             /\ fsCalls' = fsCalls

FullSyncNext ==
    \* run_full_sync is called and calls its first step (line 339)
    \/ /\ fsPc = "idle"
       /\ fsPc' = run_full_sync_steps[1]
       /\ fsCalls' = <<run_full_sync_steps[1]>>
       /\ UNCHANGED <<lookupVars, pipelineVars, hometownVars, scrapeVars, httpVars, callVars, batchVars, tableVars>>
    \* sync_teams, sync_rosters and sync_schedule run their loops
    \/ /\ fsPc = "sync_teams"
       /\ \E teams \in ScrapedTeams : SyncTeamsStart(teams)
    \/ /\ fsPc = "sync_teams"
       /\ \E outcome \in DbOutcomes : SyncTeamsItem(outcome)
    \/ /\ fsPc = "sync_rosters"
       /\ \E teams \in SubLists(TeamRows, MaxItems) : SyncRostersStart(teams)
    \/ /\ fsPc = "sync_rosters"
       /\ plPc = "sync_rosters"
       /\ plIdx <= Len(plInput)
       /\ \E scraped \in ScrapedRosters :
             LET players == RosterPlayers(scraped, plInput[plIdx].team_id)
             IN  \E outcomes \in [WritePositions(PlayersValid(players)) -> DbOutcomes] :
                    SyncRostersTeam(scraped, outcomes)
    \/ /\ fsPc = "sync_schedule"
       /\ \E schedule \in ScrapedSchedules : SyncScheduleStart(schedule)
    \/ /\ fsPc = "sync_schedule"
       /\ \E outcome \in DbOutcomes : SyncScheduleItem(outcome)
    \* the loop is over (sync_rosters also returns at once when the teams
    \* table is empty, line 449) and the method returns
    \/ /\ fsPc \in {"sync_teams", "sync_rosters", "sync_schedule"}
       /\ plPc = fsPc
       /\ plIdx > Len(plInput)
       /\ PipelineFrameGone
       /\ RunFullSyncGoesOn
       /\ UNCHANGED <<stats_scraped, lookupVars, hometownVars, scrapeVars, httpVars, callVars, batchVars, tableVars>>
    \* process_hometowns runs its loop
    \/ /\ fsPc = "process_hometowns"
       /\ \E players \in PlayersNeedingLookup : ProcessHometownsStart(players)
    \/ /\ fsPc = "process_hometowns"
       /\ \E read \in DbOutcomes : ProcessHometownsLookup(read)
    \/ /\ fsPc = "process_hometowns"
       /\ phPc = "lookup"
       /\ lkPc = "loop"
       /\ lkIdx <= Len(scrapers)
       /\ \E outcome \in ScraperOutcomes(scrapers[lkIdx]) :
             \E write \in (IF outcome.kind = "dict" /\ lkDb THEN DbOutcomes ELSE {"skipped"}) :
                LookupSource(outcome, write)
    \/ /\ fsPc = "process_hometowns"
       /\ \E outcome \in DbOutcomes : ProcessHometownsPlayer(outcome)
    \* process_hometowns returns: no player needs a lookup (line 602), or
    \* the loop is over (line 657)
    \/ /\ fsPc = "process_hometowns"
       /\ phPc \in {"idle", "done"}
       /\ ProcessHometownsFrameGone
       /\ RunFullSyncGoesOn
       /\ UNCHANGED <<lookupVars, pipelineVars, scrapeVars, httpVars, callVars, batchVars, tableVars>>
    \* flag_american_games, lines 683-711: one UPDATE through db.execute;
    \* whatever the call does, a mysql error (None) or another exception
    \* (caught at line 710), the method returns
    \/ /\ fsPc = "flag_american_games"
       /\ RunFullSyncGoesOn
       /\ UNCHANGED <<lookupVars, pipelineVars, hometownVars, scrapeVars, httpVars, callVars, batchVars, tableVars>>
    \* a step raises before its loop: scrape_teams on a payload that is not
    \* a list of dicts (line 385), get_all_teams and
    \* get_players_needing_hometown_lookup on a connector without a
    \* connection (lines 446, 598), scrape_schedule re-raised at line 562.
    \* The except clause of run_full_sync logs and re-raises (lines 355-357).
    \/ /\ fsPc \in {"sync_teams", "sync_rosters", "sync_schedule", "process_hometowns"}
       /\ plPc = "idle"
       /\ phPc = "idle"
       /\ fsPc' = "raised"
       /\ UNCHANGED <<fsCalls, lookupVars, pipelineVars, hometownVars, scrapeVars, httpVars, callVars, batchVars, tableVars>>

SpecFullSync == HometownsInit /\ [][FullSyncNext]_vars

(***************************************************************************)
(* Claim about run_full_sync, checked under SpecFullSync                    *)
(***************************************************************************)
\* the order of the steps as documented (docstring of run_full_sync)
DocumentedOrder ==
    <<"sync_teams", "sync_rosters", "sync_schedule", "process_hometowns",
      "flag_american_games">>

\* C11: run_full_sync calls sync_teams, sync_rosters, sync_schedule,
\* process_hometowns and flag_american_games once each and in that order:
\* the calls made so far are always a prefix of that list, a step runs only
\* as the last step called, and the method ends normally only after all
\* five.  Once a step has raised, the exception has left run_full_sync:
\* no further step is called and nothing runs.
C11_StepsOnceInOrder ==
    /\ [](\E n \in 0..Len(DocumentedOrder) : fsCalls = SubSeq(DocumentedOrder, 1, n))
    /\ [](fsPc = "done" => fsCalls = DocumentedOrder)
    /\ [](plPc # "idle" => plPc = fsPc /\ fsCalls[Len(fsCalls)] = plPc)
    /\ [](phPc # "idle" => fsPc = "process_hometowns"
                             /\ fsCalls[Len(fsCalls)] = "process_hometowns")
    /\ [](fsPc = "raised" => plPc = "idle" /\ phPc = "idle" /\ lkPc = "idle")
    /\ [][fsPc = "raised" => fsPc' = "raised" /\ fsCalls' = fsCalls]_vars

\* process_hometowns raised after the first three steps had returned
C11_Witness ==
    /\ fsPc = "raised"
    /\ fsCalls = <<"sync_teams", "sync_rosters", "sync_schedule", "process_hometowns">>

(***************************************************************************)
(* EuroLeagueScraper.scrape_teams, scrape_roster, scrape_schedule and       *)
(* scrape_game_stats (src/scrapers/euroleague_scraper.py): the API attempt  *)
(* and the web fallback                                                     *)
(***************************************************************************)
\* what the web pages give: no page (_get_soup returned None), or a page with
\* some links or cards, each with its text and the game code of its href.
\* The texts are names longer than three characters, so that team_name is
\* the link text (line 159) and no card is dropped as too short (line 351).
WebPages ==
    LET elems == { [text |-> <<"G", "o", "r", "i", "c", "a">>, code |-> <<"7">>],
                   [text |-> <<"S", "a", "r", "a", "g", "o", "s", "a", " ", "J", ".">>,
                    code |-> <<"8">>] }
    IN  {[soup |-> FALSE, elems |-> <<>>]}
           \cup {[soup |-> TRUE, elems |-> es] : es \in SeqsUpTo(elems, MaxItems)}

\* _scrape_teams_web, _scrape_roster_web, _scrape_schedule_web and
\* _scrape_game_stats_web: the fields of the dicts that the pipeline and the
\* validator read.  A team link whose slug was seen before is skipped; a web
\* player has no country element, so that is_american is False; a web game
\* has no date and is 'scheduled'; the web box score has no player stats.
scrape_web(fn, arg, page) ==
    LET es == page.elems
        first(i) == \A j \in 1..(i - 1) : es[j].text # es[i].text
        team(e) == [type |-> "dict",
                    team_id |-> PyStr(normalize_team_id(LEAGUE_ID, e.text)),
                    league_id |-> PyStr(LEAGUE_ID),
                    team_name |-> PyStr(e.text)]
        player(e) == [type |-> "dict",
                      player_id |-> PyStr(normalize_player_id(LEAGUE_ID, e.text)),
                      league_id |-> PyStr(LEAGUE_ID),
                      full_name |-> PyStr(e.text),
                      jersey_number |-> PyStr(<<>>),
                      is_american |-> PyBool(identify_american(<<>>)),
                      needs_hometown_lookup |-> PyBool(identify_american(<<>>))]
        game(e) == [type |-> "dict",
                    game_id |-> PyStr(LEAGUE_ID \o <<"_">> \o current_season
                                         \o <<"_">> \o e.code),
                    game_date |-> PyNone,
                    status |-> PyStr(<<"s", "c", "h", "e", "d", "u", "l", "e", "d">>)]
    IN  CASE fn = "scrape_teams" ->
                KeepParsed([i \in 1..Len(es) |-> IF first(i) THEN team(es[i]) ELSE PyNone])
          [] fn = "scrape_roster" -> [i \in 1..Len(es) |-> player(es[i])]
          [] fn = "scrape_schedule" -> [i \in 1..Len(es) |-> game(es[i])]
          [] fn = "scrape_game_stats" ->
                scrape_game_stats(arg, [kind |-> IF page.soup THEN "web" ELSE "nothing"])

\* what the _scrape_*_api method of a call can return: the parsed records of
\* the payload, empty when the request or the JSON parsing failed
ApiResults(fn, arg) ==
    CASE fn = "scrape_teams" -> ScrapedTeams
      [] fn = "scrape_roster" -> ScrapedRosters
      [] fn = "scrape_schedule" -> ScrapedSchedules
      [] fn = "scrape_game_stats" ->
            {scrape_game_stats(arg, boxscore) : boxscore \in {b \in BoxScores : b.kind = "data"}}
               \cup {EmptyDict}

\* the arguments of the calls: scrape_roster's team_id, the empty string
\* standing for the falsy values (None by default); scrape_game_stats'
\* game_id, one of them without a game code
ScrapeArgs(fn) ==
    CASE fn = "scrape_roster" ->
            {PyStr(<<>>)} \cup {TeamRows[i].team_id : i \in 1..Len(TeamRows)}
      [] fn = "scrape_game_stats" ->
            {CompletedGameIds[i] : i \in 1..Len(CompletedGameIds)}
               \cup {LEAGUE_ID \o <<"_">> \o current_season}
      [] OTHER -> {<<>>}

\* mutant: the API result is never taken
api_has_data_never(fn, api) == FALSE

\* `if api_teams:`, `if api_players:`, `if api_schedule:`, `if api_stats:`
\* (lines 63, 201, 501, 686): a non-empty list, a non-empty dict
api_has_data(fn, api) ==
    IF fn = "scrape_game_stats" THEN PyTruthy(api) ELSE api # <<>>

\* scrape_roster, lines 207-210: team_id is assigned to every player when
\* one is given; the other methods return the list or dict as it is
ScrapeResult(fn, arg, found) ==
    IF fn = "scrape_roster" /\ PyTruthy(arg)
    THEN [i \in 1..Len(found) |->
             [k \in DOMAIN found[i] \cup {"team_id"} |->
                 IF k = "team_id" THEN arg ELSE found[i][k]]]
    ELSE found

\* a scrape_* method is called.  scrape_game_stats returns {} at once for a
\* game_id of fewer than three parts (lines 677-679).
ScrapeCall(fn, arg) ==
    /\ scPc = "idle"
    /\ scFn' = fn
    /\ scArg' = arg
    /\ scAttempts' = <<>>
    /\ scApi' = IF fn = "scrape_game_stats" THEN EmptyDict ELSE <<>>
    /\ scRet' = IF fn = "scrape_game_stats" THEN EmptyDict ELSE <<>>
    /\ scPc' = IF fn = "scrape_game_stats" /\ Len(Split(arg, "_")) < 3
               THEN "returned" ELSE "api"
    /\ UNCHANGED <<lookupVars, pipelineVars, hometownVars, fullSyncVars, httpVars, callVars, batchVars, tableVars>>

\* the _scrape_*_api method is called and returns `api`
ScrapeApi(api) ==
    /\ scPc = "api"
    /\ scAttempts' = Append(scAttempts, "api")
    /\ scApi' = api
    /\ IF api_has_data(scFn, api)
       THEN /\ scRet' = ScrapeResult(scFn, scArg, api)
            /\ scPc' = "returned"
       ELSE /\ scRet' = scRet
            /\ scPc' = "web"
    /\ UNCHANGED <<scFn, scArg, lookupVars, pipelineVars, hometownVars, fullSyncVars, httpVars, callVars, batchVars, tableVars>>

\* the _scrape_*_web method is called on the page it fetches
ScrapeWeb(page) ==
    /\ scPc = "web"
    /\ scAttempts' = Append(scAttempts, "web")
    /\ scRet' = ScrapeResult(scFn, scArg, scrape_web(scFn, scArg, page))
    /\ scPc' = "returned"
    /\ UNCHANGED <<scFn, scArg, scApi, lookupVars, pipelineVars, hometownVars, fullSyncVars, httpVars, callVars, batchVars, tableVars>>

ScrapeNext ==
    \/ \E fn \in {"scrape_teams", "scrape_roster", "scrape_schedule", "scrape_game_stats"} :
          \E arg \in ScrapeArgs(fn) : ScrapeCall(fn, arg)
    \/ /\ scPc = "api"
       /\ \E api \in ApiResults(scFn, scArg) : ScrapeApi(api)
    \* the API payload is not of the expected shape (a list of strings, say):
    \* the parsing raises and the exception leaves the method
    \/ /\ scPc = "api"
       /\ scAttempts' = Append(scAttempts, "api")
       /\ scPc' = "raised"
       /\ UNCHANGED <<scFn, scArg, scApi, scRet, lookupVars, pipelineVars, hometownVars,
                      fullSyncVars, httpVars, callVars, batchVars, tableVars>>
    \/ \E page \in WebPages : ScrapeWeb(page)
    \* the caller has the result; the locals are gone
    \/ /\ scPc \in {"returned", "raised"}
       /\ scPc' = "idle"
       /\ scFn' = "none"
       /\ scArg' = <<>>
       /\ scApi' = <<>>
       /\ scRet' = <<>>
       /\ scAttempts' = <<>>
       /\ UNCHANGED <<lookupVars, pipelineVars, hometownVars, fullSyncVars, httpVars, callVars, batchVars, tableVars>>

SpecScrape == HometownsInit /\ [][ScrapeNext]_vars

(***************************************************************************)
(* Claims about the scrape_* methods, checked under SpecScrape              *)
(***************************************************************************)
\* the _scrape_*_api method of the running call returned an empty list or dict
ApiCameBackEmpty ==
    IF scFn = "scrape_game_stats" THEN scApi = EmptyDict ELSE scApi = <<>>

\* C12 as stated: the API is tried first, the web scraper is invoked only
\* after the API attempt returned an empty result, and when the API returned
\* data the result is exactly the API data, with no web attempt.
C12_ApiDataReturnedAsIs ==
    /\ scAttempts \in {<<>>, <<"api">>, <<"api", "web">>}
    /\ "web" \in {scAttempts[i] : i \in 1..Len(scAttempts)} => ApiCameBackEmpty
    /\ scPc = "returned" /\ scAttempts # <<>> /\ ~ApiCameBackEmpty =>
          /\ scAttempts = <<"api">>
          /\ scRet = scApi

\* C12, amended: as above, except that scrape_roster called with a team_id
\* returns the API players with their team_id set to that team_id.
C12_ApiDataReturnedWithTeam ==
    /\ scAttempts \in {<<>>, <<"api">>, <<"api", "web">>}
    /\ "web" \in {scAttempts[i] : i \in 1..Len(scAttempts)} => ApiCameBackEmpty
    /\ scPc = "returned" /\ scAttempts # <<>> /\ ~ApiCameBackEmpty =>
          /\ scAttempts = <<"api">>
          /\ IF scFn = "scrape_roster" /\ scArg.value # <<>>
             THEN /\ Len(scRet) = Len(scApi)
                  /\ \A i \in 1..Len(scRet) :
                        /\ scRet[i].team_id = scArg
                        /\ \A k \in DOMAIN scApi[i] : scRet[i][k] = scApi[i][k]
                        /\ DOMAIN scRet[i] = DOMAIN scApi[i] \cup {"team_id"}
             ELSE scRet = scApi

\* scrape_roster was called with a team_id and the API returned players
C12_Witness ==
    /\ scPc = "returned"
    /\ scFn = "scrape_roster"
    /\ scArg.value # <<>>
    /\ scAttempts = <<"api">>
    /\ scApi # <<>>

(***************************************************************************)
(* HTTP calls: BaseScraper._rate_limit_wait, _get and _post                 *)
(* (src/scrapers/base_scraper.py), api_get and the fetch functions of       *)
(* src/daily_scraper.py, the fetch functions of src/scrape_full_api.py      *)
(***************************************************************************)
\* mutant: _rate_limit_wait never sleeps
rate_limit_sleep_none(elapsed, limit) == 0

\* _rate_limit_wait, lines 297-303: the seconds slept
rate_limit_sleep(elapsed, limit) ==
    IF elapsed < limit THEN limit - elapsed ELSE 0

\* bodies of the responses: not JSON, a JSON object without 'data', a JSON
\* object whose 'data' is a list of len items
Payloads ==
    {[json |-> FALSE, has_data |-> FALSE, len |-> 0],
     [json |-> TRUE, has_data |-> FALSE, len |-> 0]}
       \cup {[json |-> TRUE, has_data |-> TRUE, len |-> n] : n \in 0..MaxItems}

\* how a call of each function ends when the HTTP exchange is `http` ("ok",
\* or "failed": requests.get / session.get raises a RequestException, or
\* raise_for_status does on an error status) and the body is `payload`
http_call(fn, http, payload) ==
    LET none == [kind |-> "None", len |-> 0]
        raise == [kind |-> "raise", len |-> 0]
        list(n) == [kind |-> "list", len |-> n]
        \* daily_scraper.api_get, lines 63-72: every Exception is caught
        api_get == IF http = "ok" /\ payload.json
                   THEN [kind |-> "json", len |-> payload.len] ELSE none
    IN  CASE fn \in {"BaseScraper._get", "BaseScraper._post"} ->
                \* lines 348-369, 411-426: requests.RequestException is caught
                IF http = "ok" THEN [kind |-> "response", len |-> 0] ELSE none
          [] fn = "daily_scraper.api_get" -> api_get
          [] fn \in {"daily_scraper.fetch_clubs", "daily_scraper.fetch_players",
                     "daily_scraper.fetch_games"} ->
                \* lines 75-105: `if data: return data.get('data', [])`, else []
                IF api_get.kind = "json" /\ payload.has_data
                THEN list(payload.len) ELSE list(0)
          [] fn \in {"scrape_full_api.fetch_clubs", "scrape_full_api.fetch_people"} ->
                \* lines 62-89: requests.get, raise_for_status and resp.json
                \* are called outside any try block
                IF http = "ok" /\ payload.json
                THEN list(IF payload.has_data THEN payload.len ELSE 0)
                ELSE raise

\* BaseScraper.__init__, lines 182-189: a scraper is constructed with its
\* configured rate limit; it has made no request
ScraperInit(limit) ==
    /\ issued = <<>>
    /\ rate_limit' = limit
    /\ last_request_time' = 0
    /\ UNCHANGED <<now, issued, htFn, htHttp, htRet>>
    /\ UNCHANGED <<lookupVars, pipelineVars, hometownVars, fullSyncVars, scrapeVars, callVars, batchVars, tableVars>>

\* _get and _post, lines 345-369 and 411-426: _rate_limit_wait sleeps for
\* the missing remainder (time.sleep may return late, by `late` seconds),
\* last_request_time is set to the time read then, and the request is
\* issued at that time
RateLimitedRequest(fn, http, late) ==
    LET sleep_time == rate_limit_sleep(now - last_request_time, rate_limit)
        woke == now + sleep_time + late
    IN  /\ Len(issued) < MaxRequests
        /\ late = 0 \/ sleep_time > 0
        /\ woke <= MaxClock
        /\ now' = woke
        /\ last_request_time' = woke
        /\ issued' = Append(issued, [called |-> now, at |-> woke])
        /\ htFn' = fn
        /\ htHttp' = http
        /\ htRet' = http_call(fn, http, [json |-> TRUE, has_data |-> FALSE, len |-> 0])
        /\ UNCHANGED rate_limit
        /\ UNCHANGED <<lookupVars, pipelineVars, hometownVars, fullSyncVars, scrapeVars, callVars, batchVars, tableVars>>

\* api_get and the fetch functions of the two scripts: one requests.get
\* with no rate limiting
Fetch(fn, http, payload) ==
    /\ htFn' = fn
    /\ htHttp' = http
    /\ htRet' = http_call(fn, http, payload)
    /\ UNCHANGED <<now, rate_limit, last_request_time, issued>>
    /\ UNCHANGED <<lookupVars, pipelineVars, hometownVars, fullSyncVars, scrapeVars, callVars, batchVars, tableVars>>

HttpNext ==
    \/ \E limit \in 0..MaxRateLimit : ScraperInit(limit)
    \* time passes between two calls
    \/ /\ now < MaxClock
       /\ now' = now + 1
       /\ UNCHANGED <<rate_limit, last_request_time, issued, htFn, htHttp, htRet>>
       /\ UNCHANGED <<lookupVars, pipelineVars, hometownVars, fullSyncVars, scrapeVars, callVars, batchVars, tableVars>>
    \/ \E fn \in {"BaseScraper._get", "BaseScraper._post"}, http \in {"ok", "failed"},
          late \in 0..1 : RateLimitedRequest(fn, http, late)
    \/ \E fn \in {"daily_scraper.api_get", "daily_scraper.fetch_clubs",
                  "daily_scraper.fetch_players", "daily_scraper.fetch_games",
                  "scrape_full_api.fetch_clubs", "scrape_full_api.fetch_people"},
          http \in {"ok", "failed"}, payload \in Payloads : Fetch(fn, http, payload)

SpecHttp == HometownsInit /\ [][HttpNext]_vars

(***************************************************************************)
(* Claims about the HTTP calls, checked under SpecHttp                      *)
(***************************************************************************)
\* C13: a failed HTTP call is reported as a value and not as an exception:
\* _get, _post and api_get return None, and the fetch functions of
\* daily_scraper and of scrape_full_api return an empty list.
C13_FailedCallIsAValue ==
    htFn # "none" /\ htHttp = "failed" =>
       IF htFn \in {"BaseScraper._get", "BaseScraper._post", "daily_scraper.api_get"}
       THEN htRet.kind = "None"
       ELSE htRet.kind = "list" /\ htRet.len = 0

Call(fn, arg, ret) ==
    /\ callFn = "none"
    /\ callFn' = fn
    /\ callArg' = arg
    /\ callRet' = ret
    /\ UNCHANGED <<lookupVars, pipelineVars, hometownVars, fullSyncVars, scrapeVars, httpVars, batchVars, tableVars>>

\* str.upper, for the letters of the sample strings
UpperChar(c) ==
    CASE c = "u" -> "U"
      [] c = "s" -> "S"
      [] c = "a" -> "A"
      [] c = "e" -> "E"
      [] c = "p" -> "P"
      [] c = "r" -> "R"
      [] c = "j" -> "J"
      [] c = "i" -> "I"
      [] c = "m" -> "M"
      [] c = "c" -> "C"
      [] c = "h" -> "H"
      [] c = "l" -> "L"
      [] c = "n" -> "N"
      [] c = "o" -> "O"
      [] c = "t" -> "T"
      [] c = "v" -> "V"
      [] OTHER -> c

AMERICAN_CODES_usa_only == {<<"U", "S", "A">>}

\* daily_scraper.AMERICAN_CODES
AMERICAN_CODES == {<<"U", "S", "A">>, <<"U", "S">>}

\* mutant: every country is American
is_american_always(country_data) == PyBool(TRUE)

\* daily_scraper.is_american; None.upper() raises when 'code' is null
is_american(country_data) ==
    IF ~PyTruthy(country_data) THEN PyBool(FALSE)
    ELSE LET code == IF "code" \in DOMAIN country_data
                     THEN country_data.code ELSE PyStr(<<>>)
         IN  IF code.type # "str" THEN [type |-> "raise"]
             ELSE PyBool([i \in 1..Len(code.value) |-> UpperChar(code.value[i])]
                            \in AMERICAN_CODES)

\* daily_scraper.extract_american_performances: the fields team,
\* player_name, points, rebounds and assists of the records.  The country
\* objects of the sample entries have string codes, so is_american returns.
extract_american_performances(game, stats) ==
    LET get(d, key, default) == IF key \in DOMAIN d THEN d[key] ELSE default
        \* int(stat.get(key, 0) or 0)
        stat_int(stat, key) ==
            LET v == get(stat, key, PyInt(0)) IN IF PyTruthy(v) THEN v.value ELSE 0
        american(player_stat) ==
            LET person == get(get(player_stat, "player", EmptyDict), "person", EmptyDict)
                country == get(person, "country", EmptyDict)
                birth_country == get(person, "birthCountry", EmptyDict)
            IN  is_american(country).value \/ is_american(birth_country).value
        perf(side, player_stat) ==
            LET person == get(get(player_stat, "player", EmptyDict), "person", EmptyDict)
                stat == get(player_stat, "stats", EmptyDict)
            IN  [team |-> game[side].club.name,
                 player_name |-> get(person, "name", "None"),
                 points |-> stat_int(stat, "points"),
                 rebounds |-> stat_int(stat, "totalRebounds"),
                 assists |-> stat_int(stat, "assistances")]
        of_side(side) ==
            LET players == get(get(stats, side, EmptyDict), "players", <<>>)
                found == SelectSeq(players, american)
            IN  [i \in 1..Len(found) |-> perf(side, found[i])]
    IN  IF ~PyTruthy(stats) THEN <<>>
        ELSE of_side("local") \o of_side("road")

\* player entries of a box score: an American, a Spaniard with only points,
\* a player born in the US whose points are null and rebounds missing, and
\* a player whose country is null
BoxScorePlayers ==
    LET entry(name, person, stats) ==
            [type |-> "dict",
             player |-> [type |-> "dict", person |-> person @@ [type |-> "dict", name |-> name]],
             stats |-> stats @@ [type |-> "dict"]]
        country(code) == [type |-> "dict", code |-> PyStr(code)]
    IN  { entry("Test, American",
                [country |-> country(<<"U", "S", "A">>),
                 birthCountry |-> country(<<"U", "S", "A">>)],
                [points |-> PyInt(20), totalRebounds |-> PyInt(5), assistances |-> PyInt(8)]),
          entry("European, Player",
                [country |-> country(<<"E", "S", "P">>)],
                [points |-> PyInt(15)]),
          entry("Born, Abroad",
                [country |-> country(<<"E", "S", "P">>),
                 birthCountry |-> country(<<"u", "s">>)],
                [points |-> PyNone, assistances |-> PyInt(3)]),
          entry("No, Country",
                [country |-> PyNone],
                [points |-> PyInt(7), totalRebounds |-> PyInt(2), assistances |-> PyNone]) }

\* the stats argument: None, {}, a box score with both sides, one with the
\* local side only
BoxScoreStats ==
    LET side(players) == [type |-> "dict", players |-> players]
        lists == SeqsUpTo(BoxScorePlayers, MaxItems)
    IN  {PyNone, EmptyDict}
           \cup {[type |-> "dict", local |-> side(l), road |-> side(r)] : l, r \in lists}
           \cup {[type |-> "dict", local |-> side(l)] : l \in lists}

\* daily_scraper.process_games.  A date string is compared as a string, so
\* only its order matters: [day, half] stands for 'YYYY-MM-DDTHH:MM:SS'
\* with the day counted from a fixed origin and the time of day in two
\* halves; day -1 stands for '' (the default of a missing 'date').  clock is
\* datetime.now().
process_games(games, mode, clock) ==
    LET date(g) == IF "date" \in DOMAIN g THEN g.date ELSE [day |-> -1, half |-> 0]
        played(g) == "played" \in DOMAIN g /\ g.played
        \* a >= b on isoformat strings
        ge(a, b) == a.day > b.day \/ (a.day = b.day /\ a.half >= b.half)
        week_ago == [day |-> clock.day - 7, half |-> clock.half]
        is_today(g) == date(g).day = clock.day
        is_recent(g) == played(g) /\ ge(date(g), week_ago)
    IN  CASE mode = "today" -> SelectSeq(games, is_today)
          [] mode = "recent" -> SelectSeq(games, is_recent)
          [] OTHER -> games

\* games of the schedule as fetch_games returns them, around a run on day
\* 8: long past, a week before the run, yesterday, the day of the run,
\* a played game dated the day after the run (dates are local to the arena,
\* the clock is the runner's), an upcoming game, and a game without a date
ScheduleGames ==
    LET game(code, day, half, played) ==
            [gameCode |-> code, date |-> [day |-> day, half |-> half], played |-> played]
    IN  { game(1, 0, 1, TRUE), game(2, 1, 0, TRUE), game(3, 7, 1, TRUE),
          game(4, 8, 0, TRUE), game(5, 8, 1, FALSE), game(6, 9, 0, TRUE),
          game(7, 15, 1, FALSE), [gameCode |-> 8, played |-> TRUE] }

\* hometown_lookup_fixed.clean_name
clean_name(name) ==
    LET \* a letter; LowerChar and UpperChar cover the letters of the names
        cased(c) == LowerChar(c) # c \/ UpperChar(c) # c
        \* str.title(): a cased character is upper-cased after an uncased
        \* one (or at the start) and lower-cased after a cased one
        title(s) == [i \in 1..Len(s) |->
                        IF i = 1 \/ ~cased(s[i - 1]) THEN UpperChar(s[i]) ELSE LowerChar(s[i])]
        commas == {i \in 1..(Len(name) - 1) : name[i] = "," /\ name[i + 1] = " "}
        \* name.split(', ', 1), then f"{parts[1]} {parts[0]}"
        swapped ==
            IF commas = {} THEN name
            ELSE LET i == CHOOSE k \in commas : \A m \in commas : k <= m
                 IN  SubSeq(name, i + 2, Len(name)) \o <<" ">> \o SubSeq(name, 1, i - 1)
        titled == title(swapped)
        suffixes == {<<"i", "i">>,
                     <<"i", "i", "i">>,
                     <<"i", "v">>,
                     <<"j", "r">>,
                     <<"j", "r", ".">>,
                     <<"s", "r">>,
                     <<"s", "r", ".">>}
        \* the matches of \s+(Ii|Iii|Iv|Jr\.?|Sr\.?)$ with re.IGNORECASE, by
        \* the position where the white space starts
        matches == {i \in 1..Len(titled) :
                       \E k \in i..Len(titled) :
                          /\ \A m \in i..k : titled[m] \in Whitespace
                          /\ Lower(SubSeq(titled, k + 1, Len(titled))) \in suffixes}
        removed ==
            IF matches = {} THEN titled
            ELSE SubSeq(titled, 1, (CHOOSE i \in matches : \A m \in matches : i <= m) - 1)
    IN  Strip(removed)

\* player names as the API and the tests give them: 'Last, First' and
\* 'First Last', with and without a generational suffix after the first
\* name or at the end
NamesToClean ==
    LET firsts == {<<"M", "i", "c", "h", "a", "e", "l">>, <<"J", "o", "h", "n">>, <<"J", "O", "H", "N">>}
        lasts == {<<"P", "o", "r", "t", "e", "r">>, <<"S", "m", "i", "t", "h">>, <<"S", "M", "I", "T", "H">>}
        suffixes == {<<>>, <<"J", "r", ".">>, <<"I", "I", "I">>, <<"S", "r", ".">>, <<"I", "I">>, <<"I", "V">>}
        with(w, suffix) == IF suffix = <<>> THEN w ELSE w \o <<" ">> \o suffix
    IN  {[name |-> l \o <<",", " ">> \o with(f, x), first |-> f, last |-> l, suffix |-> x] :
            f \in firsts, l \in lasts, x \in suffixes}
           \cup {[name |-> with(f \o <<" ">> \o l, x), first |-> f, last |-> l, suffix |-> x] :
                    f \in firsts, l \in lasts, x \in suffixes}

\* hometown_lookup_fixed.US_STATES
US_STATES ==
    {"Alabama", "Alaska", "Arizona", "Arkansas", "California",
     "Colorado", "Connecticut", "Delaware", "Florida", "Georgia",
     "Hawaii", "Idaho", "Illinois", "Indiana", "Iowa", "Kansas",
     "Kentucky", "Louisiana", "Maine", "Maryland", "Massachusetts",
     "Michigan", "Minnesota", "Mississippi", "Missouri", "Montana",
     "Nebraska", "Nevada", "New Hampshire", "New Jersey", "New Mexico",
     "New York", "North Carolina", "North Dakota", "Ohio", "Oklahoma",
     "Oregon", "Pennsylvania", "Rhode Island", "South Carolina",
     "South Dakota", "Tennessee", "Texas", "Utah", "Vermont", "Virginia",
     "Washington", "West Virginia", "Wisconsin", "Wyoming",
     "District of Columbia", "D.C."}

\* hometown_lookup_fixed.STATE_ABBREVS
STATE_ABBREVS ==
    LET items == {<<"AL", "Alabama">>, <<"AK", "Alaska">>, <<"AZ", "Arizona">>,
                  <<"AR", "Arkansas">>, <<"CA", "California">>,
                  <<"CO", "Colorado">>, <<"CT", "Connecticut">>,
                  <<"DE", "Delaware">>, <<"FL", "Florida">>,
                  <<"GA", "Georgia">>, <<"HI", "Hawaii">>, <<"ID", "Idaho">>,
                  <<"IL", "Illinois">>, <<"IN", "Indiana">>, <<"IA", "Iowa">>,
                  <<"KS", "Kansas">>, <<"KY", "Kentucky">>,
                  <<"LA", "Louisiana">>, <<"ME", "Maine">>,
                  <<"MD", "Maryland">>, <<"MA", "Massachusetts">>,
                  <<"MI", "Michigan">>, <<"MN", "Minnesota">>,
                  <<"MS", "Mississippi">>, <<"MO", "Missouri">>,
                  <<"MT", "Montana">>, <<"NE", "Nebraska">>,
                  <<"NV", "Nevada">>, <<"NH", "New Hampshire">>,
                  <<"NJ", "New Jersey">>, <<"NM", "New Mexico">>,
                  <<"NY", "New York">>, <<"NC", "North Carolina">>,
                  <<"ND", "North Dakota">>, <<"OH", "Ohio">>,
                  <<"OK", "Oklahoma">>, <<"OR", "Oregon">>,
                  <<"PA", "Pennsylvania">>, <<"RI", "Rhode Island">>,
                  <<"SC", "South Carolina">>, <<"SD", "South Dakota">>,
                  <<"TN", "Tennessee">>, <<"TX", "Texas">>, <<"UT", "Utah">>,
                  <<"VT", "Vermont">>, <<"VA", "Virginia">>,
                  <<"WA", "Washington">>, <<"WV", "West Virginia">>,
                  <<"WI", "Wisconsin">>, <<"WY", "Wyoming">>,
                  <<"DC", "District of Columbia">>}
    IN  [abbrev \in {item[1] : item \in items} |->
            (CHOOSE item \in items : item[1] = abbrev)[2]]

\* hometown_lookup_fixed.parse_infobox.  The wikitext is the infobox with
\* its fields `| key = value`; a value is a sequence of pieces of markup:
\* plain text, a comma, a link [[target]], a piped link [[target|text]], a
\* template {{...}} and the text U.S. or USA.  The target of a link is the
\* list of its comma-separated parts.  '' is the infobox without fields.
parse_infobox(wikitext) ==
    LET RECURSIVE cat(_), plain(_)
        \* the strings of a list put together
        cat(strs) == IF strs = <<>> THEN "" ELSE Head(strs) \o cat(Tail(strs))
        with_commas(target) ==
            [i \in 1..(2 * Len(target) - 1) |-> IF i % 2 = 1 THEN target[(i + 1) \div 2] ELSE ","]
        commas_in(target) ==
            cat([i \in 1..(2 * Len(target) - 1) |->
                    IF i % 2 = 1 THEN target[(i + 1) \div 2] ELSE ", "])
        \* birth_text after the three re.sub and the two replace: a link
        \* [[target|text]] and a link [[target]] leave the target (\1), a
        \* template and U.S. / USA leave nothing
        plain(value) ==
            IF value = <<>> THEN <<>>
            ELSE LET piece == Head(value)
                 IN  (CASE piece.t = "text" -> <<piece.text>>
                        [] piece.t = "," -> <<",">>
                        [] piece.t \in {"link", "piped"} -> with_commas(piece.target)
                        [] piece.t \in {"template", "U.S."} -> <<>>)
                     \o plain(Tail(value))
        \* [p.strip() for p in birth_text.split(',') if p.strip()]
        birth_parts ==
            LET runs == Split(plain(wikitext.birth_place), ",")
                stripped == [i \in 1..Len(runs) |-> cat(runs[i])]
            IN  SelectSeq(stripped, LAMBDA p : p # "")
        state == birth_parts[2]
        found_state ==
            IF "birth_place" \notin DOMAIN wikitext \/ Len(birth_parts) < 2 THEN "None"
            ELSE IF state \in US_STATES THEN state
            ELSE IF state \in DOMAIN STATE_ABBREVS THEN STATE_ABBREVS[state]
            ELSE "None"
        \* college and high_school: the text of the first piped link, else
        \* the target of the first link, else the text without templates
        \* when it is longer than 2 characters
        named(key) ==
            IF key \notin DOMAIN wikitext THEN "None"
            ELSE LET value == wikitext[key]
                     piped == SelectSeq(value, LAMBDA piece : piece.t = "piped")
                     links == SelectSeq(value, LAMBDA piece : piece.t = "link")
                     text == cat([i \in 1..Len(value) |->
                                     CASE value[i].t = "text" -> value[i].text
                                       [] value[i].t = "," -> ", "
                                       [] value[i].t = "U.S." -> "U.S."
                                       [] OTHER -> ""])
                 IN  IF piped # <<>> THEN piped[1].text
                     ELSE IF links # <<>> THEN commas_in(links[1].target)
                     ELSE IF Len(text) > 2 THEN text
                     ELSE "None"
    IN  IF DOMAIN wikitext = {}
        THEN [hometown_city |-> "None", hometown_state |-> "None", high_school |-> "None",
              college |-> "None", lookup_successful |-> FALSE]
        ELSE [hometown_city |-> IF found_state = "None" THEN "None" ELSE birth_parts[1],
              hometown_state |-> found_state,
              high_school |-> named("high_school"),
              college |-> named("college"),
              lookup_successful |-> found_state # "None" \/ named("college") # "None"]

\* infoboxes of player pages: the birth places and colleges of the tests
\* and of players born outside the United States, each with whether the
\* place is in the United States
InfoboxTexts ==
    LET piece(t, target, text) == [t |-> t, target |-> target, text |-> text]
        txt(s) == piece("text", <<>>, s)
        comma == piece(",", <<>>, "")
        link(target) == piece("link", target, "")
        piped(target, text) == piece("piped", target, text)
        template == piece("template", <<>>, "")
        us == piece("U.S.", <<>>, "")
        birth_places ==
            { [in_us |-> TRUE, value |-> <<txt("Chicago"), comma, txt("Illinois")>>],
              [in_us |-> TRUE, value |-> <<link(<<"Chicago", "Illinois">>), comma, us>>],
              [in_us |-> TRUE, value |-> <<txt("Los Angeles"), comma, txt("CA")>>],
              [in_us |-> TRUE, value |-> <<template, link(<<"Akron">>), comma,
                                            piped(<<"Ohio">>, "OH"), comma, us>>],
              [in_us |-> TRUE, value |-> <<link(<<"Brooklyn">>), comma,
                                            link(<<"New York City">>), comma, txt("New York")>>],
              [in_us |-> TRUE, value |-> <<txt("Chicago")>>],
              [in_us |-> FALSE, value |-> <<txt("Toronto"), comma, txt("Ontario"), comma,
                                             txt("Canada")>>],
              [in_us |-> FALSE, value |-> <<link(<<"Madrid">>), comma, link(<<"Spain">>)>>],
              [in_us |-> FALSE, value |-> <<link(<<"Tbilisi">>), comma,
                                             piped(<<"Georgia (country)">>, "Georgia")>>],
              [in_us |-> FALSE, value |-> <<link(<<"Tbilisi">>), comma, txt("Georgia")>>] }
        colleges ==
            { <<txt("Duke")>>,
              <<piped(<<"Duke Blue Devils men's basketball">>, "Duke")>>,
              <<link(<<"Kentucky Wildcats">>)>>,
              <<template>> }
        high_schools == { <<piped(<<"Oak Hill Academy (Virginia)">>, "Oak Hill Academy")>> }
        name == [name |-> <<txt("Test Player")>>]
        fields(key, values) == {<<>>} \cup {[k \in {key} |-> v] : v \in values}
    IN  {[wikitext |-> <<>>, in_us |-> FALSE]}
           \cup {[wikitext |-> name @@ [birth_place |-> b.value] @@ c @@ h, in_us |-> b.in_us] :
                    b \in birth_places,
                    c \in fields("college", colleges),
                    h \in fields("high_school", high_schools)}
           \cup {[wikitext |-> name @@ c @@ h, in_us |-> FALSE] :
                    c \in fields("college", colleges),
                    h \in fields("high_school", high_schools)}

\* alerts.send_slack_message: the POST to the webhook, with whether Slack
\* answered 200; nothing is posted without a URL
send_slack_message(config, message, net) ==
    IF config.SLACK_WEBHOOK_URL = "" THEN <<>>
    ELSE <<[channel |-> "slack", message |-> message, delivered |-> net.slack]>>

\* alerts.send_email: the message handed to the SMTP server, with whether
\* the server took it; nothing is handed over unless user name, password
\* and recipient are all configured
send_email(config, message, net) ==
    IF config.EMAIL_USERNAME = "" \/ config.EMAIL_PASSWORD = "" \/ config.EMAIL_TO = ""
    THEN <<>>
    ELSE <<[channel |-> "email", message |-> message, delivered |-> net.smtp]>>

\* alerts.send_success_alert: the messages that leave the process
send_success_alert(config, stats, net) ==
    LET message == [kind |-> "success", stats |-> stats]
    IN  IF ~config.ALERTS_ENABLED THEN <<>>
        ELSE (IF config.SLACK_WEBHOOK_URL # "" THEN send_slack_message(config, message, net)
              ELSE <<>>)
             \o (IF config.EMAIL_USERNAME # "" /\ config.EMAIL_TO # ""
                 THEN send_email(config, message, net)
                 ELSE <<>>)

\* alerts.send_failure_alert: the messages that leave the process
send_failure_alert(config, error, net) ==
    LET message == [kind |-> "failure", error |-> error]
    IN  IF ~config.ALERTS_ENABLED THEN <<>>
        ELSE (IF config.SLACK_WEBHOOK_URL # "" THEN send_slack_message(config, message, net)
              ELSE <<>>)
             \o (IF config.EMAIL_USERNAME # "" /\ config.EMAIL_TO # ""
                 THEN send_email(config, message, net)
                 ELSE <<>>)

\* mutant: the wrapper catches every BaseException
alert_on_completion_catch_all(config, func, net) ==
    IF func.kind = "return"
    THEN [outcome |-> func, alerts |-> <<"success">>,
          messages |-> send_success_alert(config, func.value, net)]
    ELSE [outcome |-> func, alerts |-> <<"failure">>,
          messages |-> send_failure_alert(config, func.message, net)]

\* alerts.alert_on_completion: one call of the wrapper around a function
\* that returns func.value or raises func.exception.  alerts lists the
\* calls of send_success_alert and send_failure_alert, messages what they
\* sent, outcome how the wrapper ends.  `except Exception` catches an
\* Exception and not a SystemExit or KeyboardInterrupt; the two send
\* functions catch what their transports raise, so they return.
alert_on_completion(config, func, net) ==
    LET \* result if isinstance(result, dict) else None
        stats == IF func.value.type = "dict" THEN func.value ELSE PyNone
    IN  IF func.kind = "return"
        THEN [outcome |-> func, alerts |-> <<"success">>,
              messages |-> send_success_alert(config, stats, net)]
        ELSE IF func.exception = "Exception"
        THEN [outcome |-> func, alerts |-> <<"failure">>,
              messages |-> send_failure_alert(config, func.message, net)]
        ELSE [outcome |-> func, alerts |-> <<>>, messages |-> <<>>]

\* PhotoProcessor.categorize_photo with is_16x9, is_square and is_4x3: the
\* metadata of a photo whose URL answers 200 or not (valid) and whose
\* image has the dimensions width x height; width = height = 0 stands for
\* dimensions that could not be read (None).  abs(w / h - r) <= 0.1 is
\* written without the division.
categorize_photo(url, valid, width, height) ==
    LET abs(x) == IF x < 0 THEN -x ELSE x
        known == valid /\ width # 0 /\ height # 0
    IN  [url |-> url,
         width |-> IF known THEN width ELSE 0,
         height |-> IF known THEN height ELSE 0,
         is_16x9 |-> known /\ 10 * abs(9 * width - 16 * height) <= 9 * height,
         is_square |-> known /\ 10 * abs(width - height) <= height,
         is_4x3 |-> known /\ 10 * abs(3 * width - 4 * height) <= 3 * height,
         is_valid |-> valid]

\* PhotoProcessor.select_best_photo.  photo_score is kept as 1000 times
\* the score of the code, so that it stays an integer; list.sort is
\* stable, also with reverse=True, so the first photo with the highest
\* score is returned.
select_best_photo(photos) ==
    LET valid_photos == SelectSeq(photos, LAMBDA p : p.is_valid)
        photo_score(p) ==
            1000 * (IF p.is_16x9 THEN 1000000
                    ELSE IF p.is_4x3 THEN 500000
                    ELSE IF p.is_square THEN 250000
                    ELSE 0)
               + p.width * p.height
        best == CHOOSE i \in 1..Len(valid_photos) :
                   /\ \A j \in 1..Len(valid_photos) :
                         photo_score(valid_photos[j]) <= photo_score(valid_photos[i])
                   /\ \A j \in 1..(i - 1) :
                         photo_score(valid_photos[j]) < photo_score(valid_photos[i])
    IN  IF valid_photos = <<>> THEN PyNone ELSE valid_photos[best]

\* one call at a time, each function on the inputs listed with it
CallsNext ==
    \* nationality strings of the people endpoint
    \/ \E nationality \in
          { <<>>,
            <<"U", "S", "A">>,
            <<"u", "s", "a">>,
            <<"U", "n", "i", "t", "e", "d", " ", "S", "t", "a", "t", "e", "s">>,
            <<"U", ".", "S", ".", "A", ".">>,
            <<"A", "m", "e", "r", "i", "c", "a", "n">>,
            <<"R", "u", "s", "s", "i", "a">>,
            <<"A", "u", "s", "t", "r", "a", "l", "i", "a">>,
            <<"A", "u", "s", "t", "r", "i", "a">>,
            <<"B", "e", "l", "a", "r", "u", "s">>,
            <<"S", "p", "a", "i", "n">>,
            <<"G", "r", "e", "e", "c", "e">> } :
          Call("_identify_american", nationality, identify_american(nationality))
    \* the country objects of the API: None, {}, a dict without 'code', a
    \* dict whose code is null, and dicts with a code
    \/ \E country_data \in
          ({PyNone, EmptyDict, [type |-> "dict", name |-> PyStr(<<"S", "p", "a", "i", "n">>)],
               [type |-> "dict", code |-> [type |-> "NoneType"]]}
                 \cup {[type |-> "dict", code |-> PyStr(c)] :
                          c \in { <<>>, <<"U", "S", "A">>, <<"u", "s", "a">>, <<"U", "s", "a">>,
                                  <<"U", "S">>, <<"u", "s">>, <<"E", "S", "P">>, <<"R", "U", "S">>,
                                  <<"A", "U", "S">>, <<"U", "S", "A", "A">> }}) :
          Call("is_american", country_data, is_american(country_data))
    \/ \E stats \in BoxScoreStats :
          LET game == [local |-> [club |-> [name |-> "Real Madrid"]],
                       road |-> [club |-> [name |-> "FC Barcelona"]]]
          IN  Call("extract_american_performances", [game |-> game, stats |-> stats],
                   extract_american_performances(game, stats))
    \/ \E games \in SeqsUpTo(ScheduleGames, MaxItems), mode \in {"all", "today", "recent"},
          half \in {0, 1} :
          LET clock == [day |-> 8, half |-> half]
          IN  Call("process_games", [games |-> games, mode |-> mode, now |-> clock],
                   process_games(games, mode, clock))
    \/ \E player \in NamesToClean : Call("clean_name", player, clean_name(player.name))
    \/ \E page \in InfoboxTexts : Call("parse_infobox", page, parse_infobox(page.wikitext))
    \/ \E enabled, slack, smtp \in BOOLEAN,
          url \in {"", "https://hooks.slack.com/services/T0/B0/x"},
          username \in {"", "scraper@example.com"},
          password \in {"", "app password"},
          to \in {"", "owner@example.com"},
          func \in {[kind |-> "return", value |-> v] :
                       v \in {PyNone, PyInt(3), EmptyDict,
                              [type |-> "dict", players |-> PyInt(100)]}}
                   \cup {[kind |-> "raise", exception |-> e, message |-> m] :
                            e \in {"Exception", "SystemExit", "KeyboardInterrupt"},
                            m \in {"API returned 500 error"}} :
          LET config == [ALERTS_ENABLED |-> enabled, SLACK_WEBHOOK_URL |-> url,
                         EMAIL_USERNAME |-> username, EMAIL_PASSWORD |-> password,
                         EMAIL_TO |-> to]
              net == [slack |-> slack, smtp |-> smtp]
          IN  Call("alert_on_completion", [config |-> config, func |-> func, net |-> net],
                   alert_on_completion(config, func, net))
    \/ \E photos \in SeqsUpTo({categorize_photo("wide.jpg", TRUE, 1280, 720),
                               categorize_photo("wide_small.jpg", TRUE, 640, 360),
                               categorize_photo("classic.jpg", TRUE, 800, 600),
                               categorize_photo("scan.png", TRUE, 32000, 24000),
                               categorize_photo("thumb.jpg", TRUE, 200, 200),
                               categorize_photo("portrait.jpg", TRUE, 1000, 1500),
                               categorize_photo("unread.jpg", TRUE, 0, 0),
                               categorize_photo("gone.jpg", FALSE, 1280, 720)}, MaxItems) :
          Call("select_best_photo", photos, select_best_photo(photos))
    \* the caller has the result
    \/ /\ callFn # "none"
       /\ callFn' = "none"
       /\ callArg' = <<>>
       /\ callRet' = <<>>
       /\ UNCHANGED <<lookupVars, pipelineVars, hometownVars, fullSyncVars, scrapeVars,
                      httpVars, batchVars, tableVars>>

SpecCalls == HometownsInit /\ [][CallsNext]_vars

(***************************************************************************)
(* Claims about these functions, checked under SpecCalls                    *)
(***************************************************************************)
\* C15: _identify_american returns True only for nationality strings that
\* are variations of USA / United States / U.S.A. / American, and False for
\* every other country's nationality string, such as Russia, Australia,
\* Austria and Belarus.
C15_OnlyAmericanNationalities ==
    callFn = "_identify_american" /\ callRet =>
       callArg \in { <<"U", "S", "A">>,
                     <<"u", "s", "a">>,
                     <<"U", "n", "i", "t", "e", "d", " ", "S", "t", "a", "t", "e", "s">>,
                     <<"U", ".", "S", ".", "A", ".">>,
                     <<"A", "m", "e", "r", "i", "c", "a", "n">> }

\* C16: is_american returns True exactly when country_data is a non-empty
\* dict whose 'code', compared case-insensitively, is 'USA' or 'US'; for
\* None, for an empty dict and for a dict without a 'code' key it returns
\* False and does not raise.
C16_TrueExactlyForUsCodes ==
    callFn = "is_american" =>
       LET has_code == callArg.type = "dict" /\ "code" \in DOMAIN callArg
           us_code == /\ has_code
                      /\ callArg.code.type = "str"
                      /\ Lower(callArg.code.value) \in {<<"u", "s", "a">>, <<"u", "s">>}
       IN  /\ (callRet.type = "bool" /\ callRet.value) <=> us_code
           /\ ~has_code => callRet.type = "bool" /\ ~callRet.value

\* the code 'us' in lower case was recognised
C16_Witness ==
    /\ callFn = "is_american"
    /\ callRet.type = "bool"
    /\ callRet.value
    /\ callArg.code.value = <<"u", "s">>

\* the player entries of the stats argument, local side first, then road,
\* each with its side
EntriesOf(stats) ==
    LET of_side(side) ==
            IF side \in DOMAIN stats
            THEN [i \in 1..Len(stats[side].players) |->
                     [side |-> side, entry |-> stats[side].players[i]]]
            ELSE <<>>
    IN  of_side("local") \o of_side("road")

\* the country or the birthCountry of a player entry has the code USA or US
HasUsCode(e) ==
    \E key \in {"country", "birthCountry"} :
       /\ key \in DOMAIN e.entry.player.person
       /\ "code" \in DOMAIN e.entry.player.person[key]
       /\ Lower(e.entry.player.person[key].code.value) \in {<<"u", "s", "a">>, <<"u", "s">>}

\* the statistic of a player entry, 0 when it is missing or null
StatOrZero(e, key) ==
    IF key \in DOMAIN e.entry.stats /\ e.entry.stats[key].type = "int"
    THEN e.entry.stats[key].value ELSE 0

\* C17: extract_american_performances returns one record for each player
\* entry of stats whose country or birthCountry is American, local side
\* first, then road, in list order, and none for any other player; the
\* list is empty when stats is None or empty; each record carries that
\* player's own points, rebounds and assists, missing or null statistics
\* counted as 0.
C17_OneRecordPerAmerican ==
    callFn = "extract_american_performances" =>
       IF DOMAIN callArg.stats \subseteq {"type", "value"} THEN callRet = <<>>
       ELSE LET americans == SelectSeq(EntriesOf(callArg.stats), HasUsCode)
            IN  /\ Len(callRet) = Len(americans)
                /\ \A i \in 1..Len(americans) :
                      /\ callRet[i].player_name = americans[i].entry.player.person.name
                      /\ callRet[i].team = callArg.game[americans[i].side].club.name
                      /\ callRet[i].points = StatOrZero(americans[i], "points")
                      /\ callRet[i].rebounds = StatOrZero(americans[i], "totalRebounds")
                      /\ callRet[i].assists = StatOrZero(americans[i], "assistances")

\* an American on the road side, after a European on the local side, with
\* null points
C17_Witness ==
    /\ callFn = "extract_american_performances"
    /\ Len(callRet) = 1
    /\ callRet[1].player_name = "Born, Abroad"
    /\ callRet[1].team = "FC Barcelona"
    /\ callRet[1].points = 0
    /\ "road" \in DOMAIN callArg.stats
    /\ Len(callArg.stats.local.players) = 1

\* the games the mode of the call is documented to keep: all of them,
\* those dated today, or those played and dated within the 7 days that
\* end now
DocumentedToKeep(g) ==
    LET clock == callArg.now
        dated == "date" \in DOMAIN g
        notAfter(a, b) == a.day < b.day \/ (a.day = b.day /\ a.half <= b.half)
    IN  CASE callArg.mode = "all" -> TRUE
          [] callArg.mode = "today" -> dated /\ g.date.day = clock.day
          [] callArg.mode = "recent" ->
                /\ "played" \in DOMAIN g /\ g.played
                /\ dated
                /\ notAfter([day |-> clock.day - 7, half |-> clock.half], g.date)
                /\ notAfter(g.date, clock)

\* C18: process_games returns a sub-list of its input in input order:
\* mode 'all' returns every game, mode 'today' exactly the games dated
\* today, mode 'recent' exactly the games that are played and whose date
\* lies within the last 7 days up to now; an empty input gives an empty
\* output in every mode.
C18_ReturnsTheGamesOfTheMode ==
    callFn = "process_games" =>
       /\ callRet = SelectSeq(callArg.games, DocumentedToKeep)
       /\ callArg.games = <<>> => callRet = <<>>

\* a word in title case
TitleWord(w) ==
    [i \in 1..Len(w) |-> IF i = 1 THEN UpperChar(w[i]) ELSE LowerChar(w[i])]

\* C19: clean_name turns 'Last, First' into 'First Last' in title case and
\* removes a generational suffix (Jr., Sr., II, III, IV), also from
\* 'Last, First Suffix' ('Porter, Michael Jr.' gives 'Michael Porter',
\* 'Smith, John III' gives 'John Smith'); a name already in 'First Last'
\* form is only title-cased.
C19_FirstLastWithoutSuffix ==
    callFn = "clean_name" =>
       callRet = TitleWord(callArg.first) \o <<" ">> \o TitleWord(callArg.last)

\* C20: for every wikitext the record of parse_infobox has hometown_state
\* None or a member of US_STATES (an abbreviation is expanded to the full
\* name), hometown_city set exactly when hometown_state is set, both None
\* for a birth place outside the United States, and lookup_successful True
\* exactly when hometown_state or college is set; the empty input gives all
\* fields None and lookup_successful False.
C20_OnlyUsHometowns ==
    callFn = "parse_infobox" =>
       /\ callRet.hometown_state = "None" \/ callRet.hometown_state \in US_STATES
       /\ callRet.hometown_state \notin DOMAIN STATE_ABBREVS
       /\ callRet.hometown_city # "None" <=> callRet.hometown_state # "None"
       /\ ~callArg.in_us => callRet.hometown_city = "None" /\ callRet.hometown_state = "None"
       /\ callRet.lookup_successful
             <=> (callRet.hometown_state # "None" \/ callRet.college # "None")
       /\ DOMAIN callArg.wikitext = {} =>
             callRet = [hometown_city |-> "None", hometown_state |-> "None",
                        high_school |-> "None", college |-> "None",
                        lookup_successful |-> FALSE]

\* what holds of a call of the wrapped function whatever it raises: a
\* return gives one success alert, no failure alert and the value itself,
\* with the value as stats when it is a dict; nothing is sent when
\* ALERTS_ENABLED is false
WrapperOnReturn ==
    /\ callArg.func.kind = "return" =>
          /\ callRet.alerts = <<"success">>
          /\ callRet.outcome = callArg.func
          /\ \A i \in 1..Len(callRet.messages) :
                /\ callRet.messages[i].message.kind = "success"
                /\ callRet.messages[i].message.stats =
                      (IF callArg.func.value.type = "dict" THEN callArg.func.value ELSE PyNone)
    /\ ~callArg.config.ALERTS_ENABLED => callRet.messages = <<>>

LargestOf(among) ==
    /\ callRet \in among
    /\ \A p \in among : p.width * p.height <= callRet.width * callRet.height

\* C22: select_best_photo returns None exactly when the list has no valid
\* photo, never returns an invalid photo, and follows the documented
\* priority: a valid 16:9 photo with the largest dimensions if a valid 16:9
\* photo exists, else a valid 4:3 photo with the largest dimensions if one
\* exists, else the valid photo with the largest dimensions.
C22_DocumentedPriority ==
    callFn = "select_best_photo" =>
       LET valid == {callArg[i] : i \in {j \in 1..Len(callArg) : callArg[j].is_valid}}
           wide == {p \in valid : p.is_16x9}
           classic == {p \in valid : p.is_4x3}
       IN  /\ callRet = PyNone <=> valid = {}
           /\ valid # {} =>
                 IF wide # {} THEN LargestOf(wide)
                 ELSE IF classic # {} THEN LargestOf(classic)
                 ELSE LargestOf(valid)

(***************************************************************************)
(* The hometown_cache table over several lookups                            *)
(***************************************************************************)
\* lookups one after the other, with and without force_refresh.  A call
\* that may write rows starts while the table has fewer than MaxCacheRows
\* rows; a call that is answered from the table starts whatever its size.
CacheNext ==
    \/ LookupNext
    \/ \E name \in PlayerNames :
          /\ Len(hometown_cache) >= MaxCacheRows
          /\ lkDb
          /\ CacheMatches(hometown_cache, normalize_name(name)) # {}
          /\ LookupBegin(name, FALSE, "ok")
          /\ UNCHANGED <<pipelineVars, hometownVars, otherVars>>

SpecCache == HometownsInit /\ [][CacheNext]_vars

\* the successful rows of the key of the running call, oldest first
SuccessfulRows == SelectSeq(hometown_cache,
                            LAMBDA row : row.player_name_search = lkKey /\ row.lookup_successful)

SummaryAfterNoReview(s, found) ==
    IF found THEN [s EXCEPT !.success = @ + 1]
    ELSE [s EXCEPT !.failed = @ + 1]

\* lines 218-236: the counters of summary after one player: success on a
\* successful lookup, needs_review and failed otherwise
SummaryAfter(s, found) ==
    IF found THEN [s EXCEPT !.success = @ + 1]
    ELSE [s EXCEPT !.needs_review = @ + 1, !.failed = @ + 1]

\* lines 194-196: without a connector the method returns the error record
ProcessAllNoDb ==
    /\ phPc = "idle"
    /\ lkPc = "idle"
    /\ ~lkDb
    /\ summary' = [error |-> "No database connection"]
    /\ phPc' = "done"
    /\ UNCHANGED <<phPlayers, phIdx, success_count, failed_count, updateCalls, reviewCalls>>
    /\ UNCHANGED <<lookupVars, pipelineVars, fullSyncVars, scrapeVars, httpVars, callVars, tableVars>>

\* lines 198-208: the rows are fetched and counted.  fetched is what
\* get_players_needing_hometown_lookup does: it returns the rows, it returns
\* [] on a database error (fetch_all), or it raises, and nothing here
\* catches that.  A run starts on an empty hometown_cache table, or for one
\* player on the one row an earlier run has left.
ProcessAllStart(players, fetched) ==
    /\ phPc = "idle"
    /\ lkPc = "idle"
    /\ lkDb
    /\ Len(hometown_cache) + Len(players) <= MaxCacheRows
    /\ hometown_cache = <<>> \/ (Len(hometown_cache) = 1 /\ Len(players) = 1)
    /\ LET rows == IF fetched = "ok" THEN players ELSE <<>>
       IN  /\ phPlayers' = rows
           /\ summary' = IF fetched = "raise" THEN summary
                         ELSE [EmptySummary EXCEPT !.total = Len(rows)]
           /\ phPc' = IF fetched = "raise" THEN "raised"
                      ELSE IF rows = <<>> THEN "done" ELSE "loop"
    /\ phIdx' = 1
    /\ updateCalls' = <<>>
    /\ reviewCalls' = <<>>
    /\ UNCHANGED <<success_count, failed_count>>
    /\ UNCHANGED <<lookupVars, pipelineVars, fullSyncVars, scrapeVars, httpVars, callVars, tableVars>>

\* lines 210-216: self.lookup_player_hometown(player_name) is called
ProcessAllLookup(read) ==
    /\ phPc = "loop"
    /\ phIdx <= Len(phPlayers)
    /\ LookupBegin(phPlayers[phIdx].full_name, FALSE, read)
    /\ phPc' = "lookup"
    /\ UNCHANGED <<phPlayers, phIdx, success_count, failed_count, updateCalls, reviewCalls>>
    /\ UNCHANGED <<pipelineVars, otherVars>>

\* lines 216-236: the rest of the iteration once the lookup has returned or
\* raised; outcome is what the call of update_player_hometown or of
\* mark_player_for_review does.  An exception of the lookup or of the
\* connector call leaves the method, the counters as they were.
ProcessAllPlayer(outcome) ==
    /\ phPc = "lookup"
    /\ lkPc \in {"returned", "raised"}
    /\ LET player_id == phPlayers[phIdx].player_id
           found == lkPc = "returned" /\ lkRet.lookup_successful
           missed == lkPc = "returned" /\ ~lkRet.lookup_successful
           raises == lkPc = "raised" \/ outcome = "raise"
       IN  /\ updateCalls' = IF found THEN Append(updateCalls, player_id) ELSE updateCalls
           /\ reviewCalls' = IF missed THEN Append(reviewCalls, player_id) ELSE reviewCalls
           /\ summary' = IF raises THEN summary ELSE SummaryAfter(summary, found)
           /\ phIdx' = IF raises THEN phIdx ELSE phIdx + 1
           /\ phPc' = IF raises THEN "raised"
                      ELSE IF phIdx = Len(phPlayers) THEN "done" ELSE "loop"
    /\ LookupFrameGone
    /\ UNCHANGED <<phPlayers, success_count, failed_count>>
    /\ UNCHANGED <<pipelineVars, fullSyncVars, scrapeVars, httpVars, callVars, tableVars>>

\* lines 239-240: summary is returned, or the exception has left the method; its
\* locals are gone
ProcessAllReturn ==
    /\ phPc \in {"done", "raised"}
    /\ ProcessHometownsFrameGone
    /\ summary' = EmptySummary
    /\ UNCHANGED <<lookupVars, pipelineVars, fullSyncVars, scrapeVars, httpVars, callVars, tableVars>>

ProcessAllNext ==
    \/ ProcessAllNoDb
    \/ \E players \in PlayersNeedingLookup, fetched \in DbOutcomes :
          ProcessAllStart(players, fetched)
    \/ \E read \in DbOutcomes : ProcessAllLookup(read)
    \/ /\ phPc = "lookup"
       /\ lkPc = "loop"
       /\ lkIdx <= Len(scrapers)
       /\ \E outcome \in ScraperOutcomes(scrapers[lkIdx]) :
             \E write \in (IF outcome.kind = "dict" /\ lkDb THEN DbOutcomes ELSE {"skipped"}) :
                LookupSource(outcome, write)
    \/ \E outcome \in DbOutcomes : ProcessAllPlayer(outcome)
    \/ ProcessAllReturn

\* the service with and without a connector
SpecProcessAll == Init /\ [][ProcessAllNext]_vars

\* the player_id of every connector call of the running method, updates first
CallsOfRun == updateCalls \o reviewCalls

RowOf(table, player_id) == CHOOSE row \in table : row.player_id = player_id

HasRow(table, player_id) == \E row \in table : row.player_id = player_id

\* player.get(key, default)
GetOr(d, key, default) == IF key \in DOMAIN d THEN d[key] ELSE default

\* what the INSERT of upsert_player (lines 228-267) binds to the columns
UpsertParams(player) ==
    [player_id |-> Get(player, "player_id"),
     team_id |-> Get(player, "team_id"),
     league_id |-> GetOr(player, "league_id", "EUROLEAGUE"),
     is_american |-> GetOr(player, "is_american", FALSE),
     hometown_city |-> Get(player, "hometown_city"),
     hometown_state |-> Get(player, "hometown_state"),
     hometown_source |-> Get(player, "hometown_source"),
     hometown_lookup_date |-> Get(player, "hometown_lookup_date"),
     high_school |-> Get(player, "high_school"),
     high_school_city |-> Get(player, "high_school_city"),
     high_school_state |-> Get(player, "high_school_state"),
     college |-> Get(player, "college"),
     photo_url |-> Get(player, "photo_url"),
     needs_hometown_lookup |-> GetOr(player, "needs_hometown_lookup", FALSE),
     needs_manual_review |-> GetOr(player, "needs_manual_review", FALSE)]

\* the upsert as REPLACE INTO: the row of an existing player_id is rewritten whole
upsert_player_replace(table, player, outcome) ==
    IF outcome # "ok" THEN table
    ELSE {row \in table : row.player_id # UpsertParams(player).player_id}
            \cup {UpsertParams(player)}

\* upsert_player, lines 181-269: INSERT ... ON DUPLICATE KEY UPDATE.  A new
\* player_id gets the row of the parameters; an existing one gets the
\* columns of the UPDATE list (lines 202-226), photo_url only when the new
\* value is not NULL.  execute returns None on a mysql error and the table is
\* as before.
upsert_player(table, player, outcome) ==
    LET params == UpsertParams(player)
        player_id == params.player_id
    IN  IF outcome # "ok" THEN table
        ELSE IF ~HasRow(table, player_id) THEN table \cup {params}
        ELSE LET old == RowOf(table, player_id)
                 new == [old EXCEPT
                           !.team_id = params.team_id,
                           !.is_american = params.is_american,
                           !.photo_url = IF params.photo_url # None
                                         THEN params.photo_url ELSE old.photo_url,
                           !.needs_hometown_lookup = params.needs_hometown_lookup]
             IN  (table \ {old}) \cup {new}

\* update_player_hometown, lines 284-312: UPDATE ... WHERE player_id = %s;
\* no row, no change
update_player_hometown(table, player_id, kwargs, today, outcome) ==
    IF outcome # "ok" \/ ~HasRow(table, player_id) THEN table
    ELSE LET old == RowOf(table, player_id)
             new == [old EXCEPT
                       !.hometown_city = Get(kwargs, "hometown_city"),
                       !.hometown_state = Get(kwargs, "hometown_state"),
                       !.high_school = Get(kwargs, "high_school"),
                       !.high_school_city = Get(kwargs, "high_school_city"),
                       !.high_school_state = Get(kwargs, "high_school_state"),
                       !.college = Get(kwargs, "college"),
                       !.hometown_source = Get(kwargs, "hometown_source"),
                       !.hometown_lookup_date = today,
                       !.needs_hometown_lookup = FALSE]
         IN  (table \ {old}) \cup {new}

\* mark_player_for_review, lines 314-324
mark_player_for_review(table, player_id, outcome) ==
    IF outcome # "ok" \/ ~HasRow(table, player_id) THEN table
    ELSE LET old == RowOf(table, player_id)
         IN  (table \ {old}) \cup {[old EXCEPT !.needs_manual_review = TRUE,
                                                !.needs_hometown_lookup = FALSE]}

\* sync_rosters, lines 474-485: the team is assigned and an American without
\* hometown_state or high_school in the scraped dict is flagged for lookup
flag_for_lookup(player, team_id) ==
    LET assigned == [k \in DOMAIN player \cup {"team_id", "league_id"} |->
                        IF k = "team_id" THEN team_id
                        ELSE IF k = "league_id" THEN "EUROLEAGUE"
                        ELSE player[k]]
        falsy(v) == v = None \/ v = ""
        flagged == GetOr(assigned, "is_american", FALSE) # FALSE
                   /\ (falsy(Get(assigned, "hometown_state")) \/ falsy(Get(assigned, "high_school")))
    IN  IF flagged
        THEN [k \in DOMAIN assigned \cup {"needs_hometown_lookup"} |->
                 IF k = "needs_hometown_lookup" THEN TRUE ELSE assigned[k]]
        ELSE assigned

\* the dicts a roster scrape gives for two players: with and without a
\* photo, American or not, and one that carries hometown data of its own
ScrapedPlayers ==
    LET ids == {"EUROLEAGUE_jose", "EUROLEAGUE_jogracia"}
        plain == {[player_id |-> id, full_name |-> id, is_american |-> a] :
                     id \in ids, a \in BOOLEAN}
        photo == {[player_id |-> id, full_name |-> id, is_american |-> TRUE,
                   photo_url |-> "roster.jpg"] : id \in ids}
        known == {[player_id |-> id, full_name |-> id, is_american |-> TRUE,
                   hometown_city |-> "Roster City", hometown_state |-> "Roster State",
                   high_school |-> "Roster High", needs_manual_review |-> TRUE] : id \in ids}
    IN  plain \cup photo \cup known

\* what process_all_american_players passes to update_player_hometown: the
\* fields of a successful lookup result and its source
HometownKwargs ==
    {[hometown_city |-> r.hometown_city, hometown_state |-> r.hometown_state,
      high_school |-> r.high_school, high_school_city |-> r.high_school_city,
      high_school_state |-> r.high_school_state, college |-> r.college,
      hometown_source |-> r.source] :
        r \in {ScraperResult("basketball_reference", p) :
                  p \in {q \in PageProfiles : "hometown_state" \in q \/ "high_school" \in q}}}

\* the calls that write to the players table, one at a time: the roster sync
\* saving a scraped player, and the hometown processing saving or flagging
\* the result of a lookup
TableNext ==
    \/ \E scraped \in ScrapedPlayers, outcome \in DbOutcomes :
          LET player == flag_for_lookup(scraped, "BAR")
          IN  /\ playersTable' = upsert_player(playersTable, player, outcome)
              /\ lastWrite' = [fn |-> "upsert_player", player |-> player, outcome |-> outcome,
                               before |-> {row \in playersTable : row.player_id = player.player_id}]
              /\ UNCHANGED <<lookupVars, pipelineVars, hometownVars, fullSyncVars,
                             scrapeVars, httpVars, callVars, batchVars>>
    \/ \E old \in playersTable, kwargs \in HometownKwargs, outcome \in DbOutcomes :
          /\ playersTable' = update_player_hometown(playersTable, old.player_id, kwargs,
                                                    "today", outcome)
          /\ lastWrite' = [fn |-> "update_player_hometown", player |-> kwargs,
                           outcome |-> outcome, before |-> {old}]
          /\ UNCHANGED <<lookupVars, pipelineVars, hometownVars, fullSyncVars,
                         scrapeVars, httpVars, callVars, batchVars>>
    \/ \E old \in playersTable, outcome \in DbOutcomes :
          /\ playersTable' = mark_player_for_review(playersTable, old.player_id, outcome)
          /\ lastWrite' = [fn |-> "mark_player_for_review", player |-> [player_id |-> old.player_id],
                           outcome |-> outcome, before |-> {old}]
          /\ UNCHANGED <<lookupVars, pipelineVars, hometownVars, fullSyncVars,
                         scrapeVars, httpVars, callVars, batchVars>>

SpecTable == HometownsInit /\ [][TableNext]_vars

\* the columns the ON DUPLICATE KEY UPDATE list does not name
KeptColumns ==
    {"hometown_city", "hometown_state", "hometown_source", "high_school",
     "high_school_city", "high_school_state", "college", "needs_manual_review"}

\* C25: upsert_player on a player_id that already exists leaves the stored
\* hometown_city, hometown_state, hometown_source, high_school,
\* high_school_city, high_school_state, college and needs_manual_review as
\* they were, so a roster re-sync does not erase what update_player_hometown
\* wrote; when the statement succeeds, needs_hometown_lookup is the newly
\* scraped value.
C25_UpsertKeepsHometown ==
    lastWrite.fn = "upsert_player" /\ lastWrite.before # {} =>
       \A old \in lastWrite.before :
          /\ HasRow(playersTable, old.player_id)
          /\ \A c \in KeptColumns : RowOf(playersTable, old.player_id)[c] = old[c]
          /\ lastWrite.outcome = "ok" =>
                RowOf(playersTable, old.player_id).needs_hometown_lookup
                   = GetOr(lastWrite.player, "needs_hometown_lookup", FALSE)

\* a re-sync of a player whose high school update_player_hometown had
\* written: the scraped dict has no hometown data, the row keeps its own and
\* is flagged for lookup again
C25_Witness ==
    /\ lastWrite.fn = "upsert_player"
    /\ lastWrite.outcome = "ok"
    /\ "high_school" \notin DOMAIN lastWrite.player
    /\ \E old \in lastWrite.before :
          /\ old.hometown_source = "basketball_reference"
          /\ old.high_school # None
          /\ ~old.needs_hometown_lookup
          /\ RowOf(playersTable, old.player_id).high_school = old.high_school
          /\ RowOf(playersTable, old.player_id).needs_hometown_lookup

====
